---- MODULE Spec2Model ----
(***************************************************************************)
(* Verification model of the conversation orchestration core of jane:      *)
(*   - ContextManager        (src/src/backend/context_manager.py)          *)
(*   - FunctionHandler       (src/src/backend/function_handler.py)         *)
(*   - SentenceSplitter      (src/src/utils/sentence_splitter.py)          *)
(*   - AssistantCore.process_command and _process_streaming_response       *)
(*                           (src/src/backend/assistant_core.py)           *)
(*                                                                         *)
(*   - PluginManager.execute_hook (src/src/plugins/plugin_manager.py)      *)
(*   - retry                 (src/src/utils/retry.py)                      *)
(*   - AssistantCore.run_voice_loop (src/src/backend/assistant_core.py)    *)
(*   - TTSEngine.speak       (src/src/backend/tts_engine.py)               *)
(*   - WakeWordDetector      (src/src/backend/wake_word_detector.py)       *)
(*                                                                         *)
(* Thirteen specifications share the module:                               *)
(*   SpecCtx   prune_context / manage_context applied to bounded inputs    *)
(*   SpecExec  FunctionHandler.execute applied to bounded inputs           *)
(*   SpecSplit SentenceSplitter fed a bounded text in every chunking       *)
(*   SpecAbbrev a default SentenceSplitter fed texts with abbreviations    *)
(*   Spec      process_command turns of one AssistantCore                  *)
(*   SpecLive  Spec with weak fairness of the steps of a call              *)
(*   SpecHook  execute_hook over bounded registries of callbacks           *)
(*   SpecRetry a function wrapped with retry, for bounded arguments        *)
(*   SpecVoice the standard voice loop for bounded numbers of utterances   *)
(*   SpecBeforeLlm the BEFORE_LLM dispatch over bounded lists of callbacks *)
(*   SpecPlain conversations of plain turns, without hooks or tool calls   *)
(*   SpecSpeech the speech threads of one streaming response               *)
(*   SpecWake  start / stop of continuous wake-word listening and the      *)
(*             background threads                                          *)
(***************************************************************************)
EXTENDS Integers, Sequences, FiniteSets, TLC

VARIABLES
    \* ---- ContextManager harness (SpecCtx) ----
    ctx_messages,       \* the message list handed to the context manager
    ctx_max,            \* ContextManager.max_messages
    ctx_threshold,      \* ContextManager.summarize_threshold
    ctx_callback,       \* behaviour of ContextManager.summarize_callback
    ctx_call,           \* the last call made: operation and flags
    ctx_out,            \* what that call returned
    \* ---- FunctionHandler harness (SpecExec) ----
    ex_name,            \* function_name of the last execute call
    ex_args,            \* keys of its arguments mapping
    ex_outcome,         \* what the callable does if it is invoked
    ex_result,          \* what execute did: its return value, or the escape
    ex_spy,             \* number of invocations of the callable (a spy)
    \* ---- SentenceSplitter harness (SpecSplit) ----
    sp_text,            \* the whole text that is fed, as characters
    sp_fed,             \* how many of its characters add_text has been given
    sp_min,             \* SentenceSplitter.min_sentence_length
    sp_buffer,          \* SentenceSplitter.buffer
    sp_out,             \* every output so far: add_text sentences, then flush
    sp_flushed,         \* flush() has been called
    \* ---- AssistantCore (Spec) ----
    conversation_history,   \* self.conversation_history, the canonical history
    managed_history,        \* the local managed_history of process_command
    aliased,                \* managed_history is the same list object as
                            \* self.conversation_history
    hook_mode,              \* what the registered BEFORE_LLM callbacks return
    pc,                     \* position of the control thread
    turn,                   \* process_command calls started so far
    history_before,         \* the canonical history when the call was made
    user_input,             \* arguments of the current call
    use_functions,
    stream,
    tools,                  \* tools is a non-empty list
    iteration,
    response,               \* response of the latest LLM result
    function_calls,         \* result['function_calls'] of the latest result
    fc_index,               \* position of the for loop over the calls
    fc_stage,               \* what the loop body does next for that call
    func_result,            \* result of execute for that call
    final_response,         \* Optional[str]
    returned,               \* return value of the call that ended last
    llm_log,                \* LLM invocations of the current call, in order
    events,                 \* hook / execute / append events of the current call
    fc_budget,              \* responses with function calls the LLM may still give
    saves,                  \* conversation_state.save() calls so far
    full_response,          \* streaming: accumulated deltas
    splitter_buffer,        \* streaming: SentenceSplitter.buffer
    sentences_spoken,       \* streaming: sentences already dispatched
    speech,                 \* texts of the speech threads started, in order
    deltas_seen,            \* streaming: deltas consumed from the stream
    \* ---- PluginManager.execute_hook harness (SpecHook) ----
    hk_enabled,         \* plugin name -> BasePlugin.enabled
    hk_hooks,           \* self.hooks[hook]: the registrations, in order
    hk_pc,              \* position of execute_hook
    hk_index,           \* position of its for loop
    hk_invoked,         \* registrations whose callback was invoked, in order
    hk_results,         \* the local results list
    \* ---- retry decorator harness (SpecRetry) ----
    rt_max_retries,     \* max_retries
    rt_retryable,       \* retryable_exceptions (None or a tuple of types)
    rt_non_retryable,   \* non_retryable_exceptions after the default
    rt_pc,              \* position of the wrapper
    rt_attempt,         \* attempt of the for loop
    rt_calls,           \* outcome of every invocation of func, in order
    rt_slept,           \* every delay slept, in order
    \* ---- run_voice_loop, standard mode (SpecVoice) ----
    vl_pc,              \* position of the loop
    vl_speech,          \* texts handed to speak, in order
    vl_log,             \* how every pass of the loop ended, in order
    \* ---- BEFORE_LLM dispatch of process_command (SpecBeforeLlm) ----
    bl_callbacks,       \* what each registered BEFORE_LLM callback does
    bl_managed,         \* managed_history before the hook
    bl_out,             \* managed_history after lines 583-590
    bl_called,          \* the hook was run
    \* ---- speech threads of one streaming response (SpecSpeech) ----
    tts_threads,        \* position of the thread started for each sentence
    tts_device,         \* the sentence whose audio the output device plays
    tts_heard,          \* sentences whose playback ran to its end, in order
    \* ---- WakeWordDetector continuous listening (SpecWake) ----
    ww_is_listening,    \* self.is_listening
    ww_stop_event,      \* self.stop_event is set
    ww_threads,         \* position of every listening thread started
    ww_main             \* position of the caller of start / stop

ctx_vars == <<ctx_messages, ctx_max, ctx_threshold, ctx_callback, ctx_call, ctx_out>>

ex_vars == <<ex_name, ex_args, ex_outcome, ex_result, ex_spy>>

sp_vars == <<sp_text, sp_fed, sp_min, sp_buffer, sp_out, sp_flushed>>

cmd_vars == <<conversation_history, managed_history, aliased, hook_mode, pc, turn,
              history_before, user_input, use_functions, stream, tools, iteration, response,
              function_calls, fc_index, fc_stage, func_result, final_response,
              returned, llm_log, events, fc_budget, saves, full_response,
              splitter_buffer, sentences_spoken, speech, deltas_seen>>

hk_vars == <<hk_enabled, hk_hooks, hk_pc, hk_index, hk_invoked, hk_results>>

rt_vars == <<rt_max_retries, rt_retryable, rt_non_retryable, rt_pc, rt_attempt,
             rt_calls, rt_slept>>

vl_vars == <<vl_pc, vl_speech, vl_log>>

bl_vars == <<bl_callbacks, bl_managed, bl_out, bl_called>>

tts_vars == <<tts_threads, tts_device, tts_heard>>

ww_vars == <<ww_is_listening, ww_stop_event, ww_threads, ww_main>>

vars == <<ctx_vars, ex_vars, sp_vars, cmd_vars, hk_vars, rt_vars, vl_vars,
          bl_vars, tts_vars, ww_vars>>

(***************************************************************************)
(* Bounds of the model                                                     *)
(***************************************************************************)
MaxCtxLen == 4          \* longest message list handed to the context manager
MaxCtxMax == 3          \* largest max_messages of the context manager harness
MaxTextLen == 5         \* longest text fed to the sentence splitter harness
MaxMinLen == 3          \* largest min_sentence_length of that harness
MaxTurns == 2           \* process_command calls per behaviour
MaxFcResponses == 5     \* LLM responses carrying function calls per behaviour
MaxDeltas == 4          \* deltas of one LLM stream
CmdMaxMessages == 4     \* max_messages of the assistant's context manager

(***************************************************************************)
(* Python helpers                                                          *)
(***************************************************************************)
Min(a, b) == IF a <= b THEN a ELSE b

\* Python's seq[s:] for any integer s (negative s counts from the end,
\* -0 is 0 and yields the whole list).
PySliceFrom(seq, s) ==
    LET n == Len(seq)
        start == IF s < 0 THEN (IF n + s < 0 THEN 0 ELSE n + s)
                          ELSE (IF s > n THEN n ELSE s)
    IN  SubSeq(seq, start + 1, n)

\* Python's seq[:e] for 0 <= e.
PySliceTo(seq, e) == SubSeq(seq, 1, Min(e, Len(seq)))

\* Optional[str]: <<>> is None, <<s>> is the string s.
None == <<>>
Some(s) == <<s>>
\* Python truthiness of an Optional[str]: None and "" are falsy.
Truthy(opt) == opt # None /\ opt[1] # ""

(***************************************************************************)
(* Messages                                                                *)
(***************************************************************************)
Msg(role, content) ==
    [role |-> role, content |-> content, important |-> FALSE,
     tool_call_id |-> "", name |-> ""]

ToolMsg(content, id, fname) ==
    [role |-> "tool", content |-> content, important |-> FALSE,
     tool_call_id |-> id, name |-> fname]

SystemPrompt == Msg("system", "You are Jane, a helpful AI assistant")

\* The contents used in the model that contain "function" or "result"
\* (compared case-insensitively, as content.lower() does).
KeywordContents ==
    { "Function result: success",
      "What was the result?",
      "Error: Unknown function: open_pod_bay",
      "Error: Error: ValueError | Message: boom | Type: configuration | Context: function=boom | Recovery: Check configuration and fix invalid values",
      "Error: Error: TypeError | Message: unsupported operand type(s) for + | Type: configuration | Context: function=test_add | Recovery: Check configuration and fix invalid values" }

is_important(message) ==
    \/ message.role = "system"
    \/ message.content \in KeywordContents
    \/ message.important

(***************************************************************************)
(* ContextManager                                                          *)
(***************************************************************************)
\* prune_context with the system messages appended after the kept messages
\* instead of before them.
prune_context_SystemLast(messages, max_messages, keep_system, keep_important) ==
    IF Len(messages) <= max_messages THEN messages
    ELSE
    LET system_messages == SelectSeq(messages, LAMBDA m : m.role = "system")
        important_messages ==
            SelectSeq(messages, LAMBDA m : m.role # "system" /\ is_important(m))
        regular_messages ==
            SelectSeq(messages, LAMBDA m : m.role # "system" /\ ~is_important(m))
        pruned0 == IF keep_system THEN system_messages ELSE <<>>
        slots0 == max_messages - Len(pruned0)
        important_to_keep ==
            IF keep_important /\ important_messages # <<>>
            THEN PySliceFrom(important_messages,
                             -Min(Len(important_messages), slots0 \div 2))
            ELSE <<>>
        slots1 == slots0 - Len(important_to_keep)
        regular_to_keep ==
            IF regular_messages # <<>> /\ slots1 > 0
            THEN PySliceFrom(regular_messages, -slots1)
            ELSE <<>>
    IN  important_to_keep \o regular_to_keep \o pruned0

prune_context(messages, max_messages, keep_system, keep_important) ==
    IF Len(messages) <= max_messages THEN messages
    ELSE
    LET system_messages == SelectSeq(messages, LAMBDA m : m.role = "system")
        important_messages ==
            SelectSeq(messages, LAMBDA m : m.role # "system" /\ is_important(m))
        regular_messages ==
            SelectSeq(messages, LAMBDA m : m.role # "system" /\ ~is_important(m))
        pruned0 == IF keep_system THEN system_messages ELSE <<>>
        slots0 == max_messages - Len(pruned0)
        important_to_keep ==
            IF keep_important /\ important_messages # <<>>
            THEN PySliceFrom(important_messages,
                             -Min(Len(important_messages), slots0 \div 2))
            ELSE <<>>
        slots1 == slots0 - Len(important_to_keep)
        regular_to_keep ==
            IF regular_messages # <<>> /\ slots1 > 0
            THEN PySliceFrom(regular_messages, -slots1)
            ELSE <<>>
    IN  pruned0 \o important_to_keep \o regular_to_keep

\* The summarize callback is an injected collaborator; its behaviours:
\*   "unset"  no callback configured
\*   "ok"     returns a non-empty summary
\*   "empty"  returns ""
\*   "raise"  raises
\* What the summarize callback does: none is configured ("unset"), it
\* returns a text ("ok"), the empty string ("empty"), None ("none", on
\* which len(summary) raises inside the try block), or it raises ("raise").
CallbackBehaviours == {"unset", "ok", "empty", "none", "raise"}
SummaryText == "they talked"

\* summarize_context whose handler returns the error text as the summary.
summarize_context_ErrorAsSummary(messages, callback) ==
    IF callback = "unset" THEN None
    ELSE IF Len(messages) < 2 THEN None
    ELSE IF callback = "ok" THEN Some(SummaryText)
    ELSE IF callback = "empty" THEN Some("")
    ELSE Some("summarization failed")

summarize_context(messages, callback) ==
    IF callback = "unset" THEN None
    ELSE IF Len(messages) < 2 THEN None
    ELSE IF callback = "ok" THEN Some(SummaryText)
    ELSE IF callback = "empty" THEN Some("")
    ELSE None

SummaryMessage(summary) ==
    Msg("system", "Previous conversation summary: " \o summary)

\* TRUE when manage_context takes its summarization branch and returns from it.
TakesSummaryPath(messages, max_messages, threshold, callback, add_summary) ==
    /\ Len(messages) > max_messages
    /\ Len(messages) >= threshold /\ add_summary
    /\ callback # "unset"
    /\ Truthy(summarize_context(
            PySliceTo(messages, Len(messages) - max_messages \div 2), callback))

manage_context(messages, max_messages, threshold, callback, add_summary) ==
    IF Len(messages) <= max_messages THEN messages
    ELSE
    LET should_summarize == Len(messages) >= threshold /\ add_summary
        system_msg == SelectSeq(messages, LAMBDA m : m.role = "system")
        cut == Len(messages) - max_messages \div 2
        old_messages == PySliceTo(messages, cut)
        recent_messages == PySliceFrom(messages, cut)
        summary == summarize_context(old_messages, callback)
        managed == system_msg \o <<SummaryMessage(summary[1])>> \o recent_messages
    IN  IF should_summarize /\ callback # "unset" /\ Truthy(summary)
        THEN IF Len(managed) > max_messages
             THEN prune_context(managed, max_messages, TRUE, TRUE)
             ELSE managed
        ELSE prune_context(messages, max_messages, TRUE, TRUE)

(***************************************************************************)
(* SpecCtx: the context manager applied to every bounded message list      *)
(***************************************************************************)
CtxKinds ==
    { SystemPrompt,
      Msg("user", "Regular message"),
      Msg("assistant", "Function result: success"),
      [Msg("user", "test") EXCEPT !.important = TRUE] }

CtxInputs == UNION { [1..n -> CtxKinds] : n \in 1..MaxCtxLen }

NoCall == [op |-> "none", keep_system |-> TRUE, keep_important |-> TRUE,
           add_summary |-> TRUE]

CtxIdle ==
    /\ ctx_messages = <<>>
    /\ ctx_max = 1
    /\ ctx_threshold = 1
    /\ ctx_callback = "unset"
    /\ ctx_call = NoCall
    /\ ctx_out = <<>>

CtxInit ==
    /\ ctx_messages \in CtxInputs
    /\ ctx_max \in 1..MaxCtxMax
    /\ ctx_threshold \in {ctx_max + 1, ctx_max + 2}
    /\ ctx_callback \in CallbackBehaviours
    /\ ctx_call = NoCall
    /\ ctx_out = <<>>

CallPrune(keep_system, keep_important) ==
    /\ ctx_call' = [op |-> "prune", keep_system |-> keep_system,
                    keep_important |-> keep_important, add_summary |-> TRUE]
    /\ ctx_out' = prune_context(ctx_messages, ctx_max, keep_system, keep_important)
    /\ UNCHANGED <<ctx_messages, ctx_max, ctx_threshold, ctx_callback>>

CallManage(add_summary) ==
    /\ ctx_call' = [op |-> "manage", keep_system |-> TRUE,
                    keep_important |-> TRUE, add_summary |-> add_summary]
    /\ ctx_out' = manage_context(ctx_messages, ctx_max, ctx_threshold,
                                 ctx_callback, add_summary)
    /\ UNCHANGED <<ctx_messages, ctx_max, ctx_threshold, ctx_callback>>

CtxPruneStep == \E ks \in BOOLEAN, ki \in BOOLEAN : CallPrune(ks, ki)
CtxManageStep == \E s \in BOOLEAN : CallManage(s)

CtxNext == CtxPruneStep \/ CtxManageStep


(***************************************************************************)
(* FunctionHandler                                                         *)
(***************************************************************************)
Param(pname, has_default) == [name |-> pname, has_default |-> has_default]

\* self.functions: the built-in get_current_time plus callables registered
\* the way the tests and the controllers register theirs.  Each entry holds
\* the callable's declared parameters (inspect.signature order), the value
\* it returns, and the ways the callable can end once it is invoked.
Functions ==
    [ get_current_time |->
        [params |-> <<>>, returns |-> "03:45 PM",
         outcomes |-> {"return"}],
      test_add |->
        [params |-> <<Param("a", FALSE), Param("b", FALSE)>>, returns |-> "8",
         outcomes |-> {"return", "TypeError"}],
      greet |->
        [params |-> <<Param("name", FALSE), Param("greeting", TRUE)>>,
         returns |-> "Hello, Jane", outcomes |-> {"return"}],
      boom |->
        [params |-> <<>>, returns |-> "",
         outcomes |-> {"ValueError"}] ]

RegisteredNames == DOMAIN Functions

\* str(error) of what the callable raises.
ExceptionText(outcome) ==
    IF outcome = "TypeError" THEN "unsupported operand type(s) for +"
    ELSE "boom"

\* ErrorHandler.create_error_message for a TypeError / ValueError (both are
\* classified CONFIGURATION); the repr of the arguments is left out of the
\* context part.
create_error_message(error_class, error_msg, function_name) ==
    "Error: " \o error_class \o " | Message: " \o error_msg
        \o " | Type: configuration | Context: function=" \o function_name
        \o " | Recovery: Check configuration and fix invalid values"

ExecResult(success, result, error, invoked, propagated) ==
    [success |-> success, result |-> result, error |-> error,
     invoked |-> invoked, propagated |-> propagated]

\* Indices of the declared parameters that are absent from args and have
\* no default.
MissingRequired(params, args) ==
    { i \in 1..Len(params) : params[i].name \notin args /\ ~params[i].has_default }

SetMin(S) == CHOOSE x \in S : \A y \in S : x <= y

\* execute without the required-parameter check: the callable is called
\* with whatever was supplied and its TypeError is reported.
execute_NoMissingCheck(function_name, args, outcome) ==
    IF function_name \notin RegisteredNames
    THEN ExecResult(FALSE, "", "Unknown function: " \o function_name, FALSE, FALSE)
    ELSE
    LET func == Functions[function_name]
        missing == MissingRequired(func.params, args)
    IN  IF missing # {}
        THEN ExecResult(FALSE, "",
                 create_error_message("TypeError", "missing required argument",
                                      function_name),
                 TRUE, FALSE)
        ELSE IF outcome = "return"
        THEN ExecResult(TRUE, func.returns, "", TRUE, FALSE)
        ELSE ExecResult(FALSE, "",
                 create_error_message(outcome, ExceptionText(outcome), function_name),
                 TRUE, FALSE)

\* execute whose handlers catch TypeError only: any other exception of the
\* callable leaves execute.
execute_CatchesTypeErrorOnly(function_name, args, outcome) ==
    IF function_name \notin RegisteredNames
    THEN ExecResult(FALSE, "", "Unknown function: " \o function_name, FALSE, FALSE)
    ELSE
    LET func == Functions[function_name]
        missing == MissingRequired(func.params, args)
    IN  IF missing # {}
        THEN ExecResult(FALSE, "",
                 "Missing required parameter: " \o func.params[SetMin(missing)].name,
                 FALSE, FALSE)
        ELSE IF outcome = "return"
        THEN ExecResult(TRUE, func.returns, "", TRUE, FALSE)
        ELSE IF outcome = "TypeError"
        THEN ExecResult(FALSE, "",
                 create_error_message(outcome, ExceptionText(outcome), function_name),
                 TRUE, FALSE)
        ELSE ExecResult(FALSE, "", "", TRUE, TRUE)

\* FunctionHandler.execute.  args is the key set of the arguments mapping,
\* outcome is what the callable does when it is invoked.  The result carries
\* two observations besides the returned dict: whether func(**filtered_args)
\* was reached, and whether an exception left execute.
execute(function_name, args, outcome) ==
    IF function_name \notin RegisteredNames
    THEN ExecResult(FALSE, "", "Unknown function: " \o function_name, FALSE, FALSE)
    ELSE
    LET func == Functions[function_name]
        missing == MissingRequired(func.params, args)
    IN  IF missing # {}
        THEN ExecResult(FALSE, "",
                 "Missing required parameter: " \o func.params[SetMin(missing)].name,
                 FALSE, FALSE)
        ELSE IF outcome = "return"
        THEN ExecResult(TRUE, func.returns, "", TRUE, FALSE)
        ELSE ExecResult(FALSE, "",
                 create_error_message(outcome, ExceptionText(outcome), function_name),
                 TRUE, FALSE)

(***************************************************************************)
(* SpecExec: execute applied to every bounded name and argument mapping    *)
(***************************************************************************)
ExecNames == RegisteredNames \cup {"open_pod_bay"}
ArgNames == {"a", "b", "name", "greeting", "invalid"}

\* What the callable may do for this call (an unregistered name has none).
OutcomesOf(function_name) ==
    IF function_name \in RegisteredNames
    THEN Functions[function_name].outcomes ELSE {"return"}

NoResult == ExecResult(FALSE, "", "", FALSE, FALSE)

ExIdle ==
    /\ ex_name = ""
    /\ ex_args = {}
    /\ ex_outcome = "return"
    /\ ex_result = NoResult
    /\ ex_spy = 0

Execute(function_name, args, outcome) ==
    /\ ex_name' = function_name
    /\ ex_args' = args
    /\ ex_outcome' = outcome
    /\ ex_result' = execute(function_name, args, outcome)
    /\ ex_spy' = IF ex_result'.invoked THEN 1 ELSE 0

ExecNext ==
    \E function_name \in ExecNames, args \in SUBSET ArgNames :
        \E outcome \in OutcomesOf(function_name) :
            Execute(function_name, args, outcome)

(***************************************************************************)
(* Claims about the ContextManager (checked under SpecCtx)                 *)
(***************************************************************************)
CtxCalled == ctx_call.op # "none"
CtxOverBudget == Len(ctx_messages) > ctx_max
CtxSummaryPath ==
    /\ ctx_call.op = "manage"
    /\ TakesSummaryPath(ctx_messages, ctx_max, ctx_threshold, ctx_callback,
                        ctx_call.add_summary)

\* C2: for every message list longer than max_messages, prune_context and
\* manage_context (pruning path and summarization path) return at most
\* max_messages messages.
C2_OutputWithinBudget ==
    (CtxCalled /\ CtxOverBudget) => Len(ctx_out) <= ctx_max

\* C3 as stated: whenever the input starts with a system message, the output
\* of every transformation, for all values of keep_system and
\* keep_important, starts with that same system message.
C3_SystemFirstForAllFlags ==
    (CtxCalled /\ ctx_messages[1].role = "system")
        => (ctx_out # <<>> /\ ctx_out[1] = ctx_messages[1])

\* C3 amended: whenever the input starts with a system message, the output
\* of prune_context called with keep_system = true (any keep_important) and
\* of manage_context (pruning path and summarization path) starts with that
\* same system message.
C3_SystemFirstWhenKept ==
    (CtxCalled /\ ctx_call.keep_system /\ ctx_messages[1].role = "system")
        => (ctx_out # <<>> /\ ctx_out[1] = ctx_messages[1])

\* C3 witness: a summarization that is pruned again, on an input that starts
\* with the system prompt.
C3_Witness ==
    /\ CtxSummaryPath
    /\ ctx_messages[1] = SystemPrompt
    /\ Len(ctx_out) < Len(ctx_messages)
    /\ \E i \in 1..Len(ctx_out) : ctx_out[i].content = SummaryMessage(SummaryText).content

\* C14: when the input is longer than max_messages and the summarize
\* callback is not configured, raises, or returns nothing usable (None or
\* the empty string), manage_context returns exactly what
\* prune_context(messages) returns; no exception leaves it.
C14_SummaryFailureFallsBackToPrune ==
    (ctx_call.op = "manage" /\ CtxOverBudget
        /\ ctx_callback \in {"unset", "raise", "none", "empty"})
        => ctx_out = prune_context(ctx_messages, ctx_max, TRUE, TRUE)

\* C14 witness: manage_context went for a summary (threshold reached, at
\* least two old messages), the callback raised, and the pruned list that
\* came back is shorter than the input.
C14_Witness ==
    /\ ctx_call.op = "manage" /\ ctx_call.add_summary
    /\ CtxOverBudget
    /\ Len(ctx_messages) >= ctx_threshold
    /\ Len(ctx_messages) - ctx_max \div 2 >= 2
    /\ ctx_callback = "raise"
    /\ ctx_out = prune_context(ctx_messages, ctx_max, TRUE, TRUE)
    /\ Len(ctx_out) < Len(ctx_messages)

\* The n most recent entries of a list (none when n is not positive).
MostRecent(seq, n) ==
    IF n <= 0 THEN <<>>
    ELSE SubSeq(seq, Len(seq) - Min(n, Len(seq)) + 1, Len(seq))

SystemOf(messages) == SelectSeq(messages, LAMBDA m : m.role = "system")
ImportantOf(messages) ==
    SelectSeq(messages, LAMBDA m : m.role # "system" /\ is_important(m))
RegularOf(messages) ==
    SelectSeq(messages, LAMBDA m : m.role # "system" /\ ~is_important(m))

\* C16: for an input longer than max_messages and default flags,
\* prune_context returns all system messages in arrival order, then the k
\* most recent important non-system messages where
\* k = min(number of important non-system messages, floor(r/2)) and
\* r = max_messages - number of system messages, then the most recent
\* regular messages filling the r - k slots that remain.
C16_PruneComposition ==
    (ctx_call.op = "prune" /\ ctx_call.keep_system /\ ctx_call.keep_important
        /\ CtxOverBudget)
        => LET r == ctx_max - Len(SystemOf(ctx_messages))
               k == Min(Len(ImportantOf(ctx_messages)), r \div 2)
           IN  ctx_out = SystemOf(ctx_messages)
                            \o MostRecent(ImportantOf(ctx_messages), k)
                            \o MostRecent(RegularOf(ctx_messages), r - k)

(***************************************************************************)
(* Claims about the FunctionHandler (checked under SpecExec)               *)
(***************************************************************************)
ExCalled == ex_name # ""
ExMissing ==
    IF ex_name \in RegisteredNames
    THEN MissingRequired(Functions[ex_name].params, ex_args) ELSE {}

\* C8: execute on a registered callable with a declared parameter that has no
\* default and is absent from the arguments returns success = false with a
\* missing-parameter error and never invokes the callable, for every subset
\* of supplied arguments.
C8_MissingParameterFailsFast ==
    (ExCalled /\ ExMissing # {}) =>
        /\ ~ex_result.success
        /\ \E i \in ExMissing :
              ex_result.error =
                  "Missing required parameter: " \o Functions[ex_name].params[i].name
        /\ ~ex_result.invoked
        /\ ex_spy = 0
        /\ ~ex_result.propagated

\* C8 witness: test_add called with a alone, as in the spec's scenario.
C8_Witness ==
    /\ ex_name = "test_add" /\ ex_args = {"a"}
    /\ ex_result.error = "Missing required parameter: b"

\* C9: execute never propagates an exception: it returns success = false
\* with "Unknown function: <name>" for an unregistered name, and
\* success = false with an error message when the callable raises.
C9_NeverPropagates ==
    ExCalled =>
        /\ ~ex_result.propagated
        /\ (ex_name \notin RegisteredNames =>
                /\ ~ex_result.success
                /\ ex_result.error = "Unknown function: " \o ex_name
                /\ ~ex_result.invoked)
        /\ (ex_result.invoked /\ ex_outcome # "return" =>
                ~ex_result.success /\ ex_result.error # "")
        /\ (ex_result.success =>
                ex_result.invoked /\ ex_outcome = "return" /\ ex_result.error = "")

\* C9 witness: a callable that was invoked and raised.
C9_Witness ==
    /\ ex_name = "test_add" /\ {"a", "b"} \subseteq ex_args
    /\ ex_outcome = "TypeError"
    /\ ex_result.invoked /\ ~ex_result.success

(***************************************************************************)
(* SentenceSplitter.  Text is a sequence of one-character strings.         *)
(***************************************************************************)
IsSpace(c) == c \in {" ", "\n", "\t"}
IsPunct(c) == c \in {".", "!", "?"}

\* str.lower() on the letters the model uses.
LowerChar(c) ==
    IF c = "S" THEN "s" ELSE IF c = "D" THEN "d" ELSE IF c = "H" THEN "h"
    ELSE IF c = "W" THEN "w" ELSE IF c = "I" THEN "i" ELSE IF c = "C" THEN "c"
    ELSE IF c = "M" THEN "m" ELSE IF c = "T" THEN "t" ELSE IF c = "G" THEN "g"
    ELSE IF c = "P" THEN "p" ELSE c
Lower(text) == [i \in 1..Len(text) |-> LowerChar(text[i])]

\* str.strip(): leading and trailing whitespace removed.
Strip(text) ==
    LET keep == { i \in 1..Len(text) : ~IsSpace(text[i]) }
    IN  IF keep = {} THEN <<>>
        ELSE SubSeq(text, SetMin(keep), CHOOSE i \in keep : \A j \in keep : j <= i)

\* str.split()[-1]: the last whitespace-separated word (<<>> if there is none).
LastWord(text) ==
    LET t == Strip(text)
        spaces == { i \in 1..Len(t) : IsSpace(t[i]) }
        start == IF spaces = {} THEN 1
                 ELSE (CHOOSE i \in spaces : \A j \in spaces : j <= i) + 1
    IN  SubSeq(t, start, Len(t))

\* str.rstrip('.,!?;:')
RStripPunct(word) ==
    LET keep == { i \in 1..Len(word) : word[i] \notin {".", ",", "!", "?", ";", ":"} }
    IN  IF keep = {} THEN <<>>
        ELSE SubSeq(word, 1, CHOOSE i \in keep : \A j \in keep : j <= i)

ABBREVIATIONS ==
    { <<"m","r",".">>, <<"m","r","s",".">>, <<"m","s",".">>, <<"d","r",".">>,
      <<"p","r","o","f",".">>, <<"s","r",".">>, <<"j","r",".">>,
      <<"v","s",".">>, <<"e","t","c",".">>, <<"e",".","g",".">>,
      <<"i",".","e",".">>, <<"a",".","m",".">>, <<"p",".","m",".">>,
      <<"i","n","c",".">>, <<"l","t","d",".">>, <<"c","o","r","p",".">>,
      <<"s","t",".">>, <<"a","v","e",".">>, <<"b","l","v","d",".">> }

\* _is_complete_sentence without the minimum length test.
_is_complete_sentence_NoMinLength(text, min_sentence_length) ==
    LET last == LastWord(Lower(text))
    IN  ~(last # <<>> /\ RStripPunct(last) \in ABBREVIATIONS)

_is_complete_sentence(text, min_sentence_length) ==
    IF Len(text) < min_sentence_length THEN FALSE
    ELSE LET last == LastWord(Lower(text))
         IN  ~(last # <<>> /\ RStripPunct(last) \in ABBREVIATIONS)

\* match.end() of every match of SENTENCE_ENDINGS = [.!?]+\s+ that
\* finditer finds in buffer: the end of a maximal whitespace run that
\* directly follows a punctuation character.
MatchEnds(buffer) ==
    { e \in 1..Len(buffer) :
        /\ IsSpace(buffer[e])
        /\ (e = Len(buffer) \/ ~IsSpace(buffer[e + 1]))
        /\ \E st \in 2..e :
              /\ \A k \in st..e : IsSpace(buffer[k])
              /\ IsPunct(buffer[st - 1]) }

\* The first match whose prefix is a complete sentence, 0 if there is none.
FirstBoundary(buffer, min_sentence_length) ==
    LET good == { e \in MatchEnds(buffer) :
                    _is_complete_sentence(Strip(PySliceTo(buffer, e)),
                                          min_sentence_length) }
    IN  IF good = {} THEN 0 ELSE SetMin(good)

\* add_text with the sentence returned but the buffer left as it was.
add_text_KeepsBuffer(buffer, text, min_sentence_length) ==
    LET buf == buffer \o text
        end_pos == FirstBoundary(buf, min_sentence_length)
    IN  IF end_pos = 0
        THEN [buffer |-> buf, sentences |-> <<>>]
        ELSE [buffer |-> buf,
              sentences |-> <<Strip(PySliceTo(buf, end_pos))>>]

\* SentenceSplitter.add_text: the new buffer and the returned list.
add_text(buffer, text, min_sentence_length) ==
    LET buf == buffer \o text
        end_pos == FirstBoundary(buf, min_sentence_length)
    IN  IF end_pos = 0
        THEN [buffer |-> buf, sentences |-> <<>>]
        ELSE [buffer |-> PySliceFrom(buf, end_pos),
              sentences |-> <<Strip(PySliceTo(buf, end_pos))>>]

\* SentenceSplitter.flush: the returned Optional[str] (the buffer is cleared).
flush(buffer) ==
    IF Strip(buffer) # <<>> THEN Some(Strip(buffer)) ELSE None

(***************************************************************************)
(* SpecSplit: one splitter fed every bounded text in every chunking        *)
(***************************************************************************)
SplitAlphabet == {"S", "t", ".", " "}
SplitTexts == UNION { [1..n -> SplitAlphabet] : n \in 1..MaxTextLen }

SpIdle ==
    /\ sp_text = <<>>
    /\ sp_fed = 0
    /\ sp_min = 10
    /\ sp_buffer = <<>>
    /\ sp_out = <<>>
    /\ sp_flushed = TRUE

SpInit ==
    /\ sp_text \in SplitTexts
    /\ sp_fed = 0
    /\ sp_min \in 1..MaxMinLen
    /\ sp_buffer = <<>>
    /\ sp_out = <<>>
    /\ sp_flushed = FALSE

AddText(n) ==
    /\ ~sp_flushed
    /\ sp_fed + n <= Len(sp_text)
    /\ LET r == add_text(sp_buffer, SubSeq(sp_text, sp_fed + 1, sp_fed + n), sp_min)
       IN  /\ sp_buffer' = r.buffer
           /\ sp_out' = sp_out \o r.sentences
    /\ sp_fed' = sp_fed + n
    /\ UNCHANGED <<sp_text, sp_min, sp_flushed>>

Flush ==
    /\ ~sp_flushed
    /\ sp_fed = Len(sp_text)
    /\ sp_out' = sp_out \o flush(sp_buffer)
    /\ sp_buffer' = <<>>
    /\ sp_flushed' = TRUE
    /\ UNCHANGED <<sp_text, sp_fed, sp_min>>

(***************************************************************************)
(* Claims about the SentenceSplitter (checked under SpecSplit)             *)
(***************************************************************************)
RECURSIVE Flatten(_)
Flatten(texts) ==
    IF texts = <<>> THEN <<>> ELSE Head(texts) \o Flatten(Tail(texts))

NonSpace(text) == SelectSeq(text, LAMBDA c : ~IsSpace(c))

\* C10: feeding any text to add_text in any chunking and then calling
\* flush() yields outputs in which every non-whitespace character of the
\* input appears exactly once and in the original order; before the flush
\* the outputs plus the buffer account for exactly what was fed.
C10_EveryCharacterOnceInOrder ==
    /\ sp_flushed => NonSpace(Flatten(sp_out)) = NonSpace(sp_text)
    /\ ~sp_flushed =>
          NonSpace(Flatten(sp_out) \o sp_buffer) = NonSpace(SubSeq(sp_text, 1, sp_fed))

\* C10 witness: a flushed text from which add_text and flush produced at
\* least two outputs and whose whitespace was not all kept.
C10_Witness ==
    /\ sp_flushed /\ sp_text # <<>>
    /\ Len(sp_out) >= 2
    /\ Len(sp_text) > Len(Flatten(sp_out))

(***************************************************************************)
(* SpecAbbrev: a default splitter fed texts with abbreviations, in every   *)
(* chunking (in one call, character by character, and all in between)      *)
(***************************************************************************)
\* The text of test_sentence_abbreviations, shortened at its end.
DrSmithText ==
    <<"D","r","."," ","S","m","i","t","h"," ","i","s"," ","h","e","r","e",
      "."," ","H","e"," ","l","e","f","t",".">>

\* An abbreviation that is the last word before a boundary, with ten or
\* more characters before that boundary.
SawTheDrText ==
    <<"I"," ","s","a","w"," ","t","h","e"," ","D","r","."," ","H","e"," ",
      "l","e","f","t",".">>

SellCarsEtcText ==
    <<"W","e"," ","s","e","l","l"," ","c","a","r","s"," ","e","t","c",".",
      " ","C","a","l","l"," ","u","s",".">>

\* SentenceSplitter.__init__: the default min_sentence_length.
DefaultMinSentenceLength == 10

MeetAtFivePmText ==
    <<"M","e","e","t"," ","m","e"," ","a","t"," ","5"," ","p",".","m",".",
      " ","T","h","e","n"," ","g","o",".">>

AskTheProfText ==
    <<"G","o"," ","a","s","k"," ","t","h","e"," ","P","r","o","f","."," ",
      "n","o","w","."," ","H","u","r","r","y","!">>

AbbrevTexts ==
    {DrSmithText, SawTheDrText, SellCarsEtcText, MeetAtFivePmText, AskTheProfText}

SpAbbrevInit ==
    /\ sp_text \in AbbrevTexts
    /\ sp_fed = 0
    /\ sp_min = DefaultMinSentenceLength
    /\ sp_buffer = <<>>
    /\ sp_out = <<>>
    /\ sp_flushed = FALSE

(***************************************************************************)
(* Claims about abbreviations (checked under SpecAbbrev)                   *)
(***************************************************************************)
DrSmithIsHere == SubSeq(DrSmithText, 1, 18)

\* C11: for "Dr. Smith is here. He left." fed to a default splitter in one
\* call or in any chunking, no emitted sentence ends at "Dr.", and the
\* first emitted sentence is "Dr. Smith is here."; it has been emitted once
\* the whitespace after "here." was fed.
C11_DrSmithNotSplitAtDr ==
    sp_text = DrSmithText =>
        /\ \A i \in 1..Len(sp_out) : LastWord(sp_out[i]) # <<"D", "r", ".">>
        /\ sp_out # <<>> => sp_out[1] = DrSmithIsHere
        /\ sp_fed >= 19 => sp_out # <<>>

\* C11 witness: the whole text was fed and flushed; the first sentence came
\* out of add_text and the rest out of flush.
C11_Witness ==
    /\ sp_text = DrSmithText
    /\ sp_flushed
    /\ sp_out = <<DrSmithIsHere, SubSeq(DrSmithText, 20, 27)>>

\* C20: add_text never returns a sentence whose last word, compared
\* case-insensitively, is one of the listed abbreviations.
C20_AbbreviationNeverEndsSentence ==
    ~sp_flushed =>
        \A i \in 1..Len(sp_out) : LastWord(Lower(sp_out[i])) \notin ABBREVIATIONS

(***************************************************************************)
(* AssistantCore.process_command                                           *)
(***************************************************************************)
max_iterations == 5

\* The assistant's context manager: summarize_threshold is
\* int(max_conversation_history * 1.5); its summarize callback catches
\* its own errors and returns a text.
CmdThreshold == (CmdMaxMessages * 3) \div 2
CmdCallback == "ok"

\* BEFORE_LLM callbacks: none registered ("none"); the last one returns a
\* new list with the same messages ("copy"); the last one returns a single
\* message dict ("dict").  A callback that returns the very list it was
\* given ("same") leaves managed_history as it is, like "none".
HookModes == {"none", "copy", "dict"}
HookDict == Msg("user", "[rewritten by plugin]")

\* Lines 583-590: managed_history after the BEFORE_LLM hook.
hooked_history(managed, mode) ==
    IF mode = "dict" THEN PySliceTo(managed, Len(managed) - 1) \o <<HookDict>>
    ELSE managed

\* A hook dispatch after which managed_history is never the canonical list.
hooked_alias_Detached(was_aliased, mode) == FALSE

\* Whether managed_history is still the canonical list object after it.
hooked_alias(was_aliased, mode) ==
    IF mode \in {"copy", "dict"} THEN FALSE ELSE was_aliased

UserInputs == {"What time is it?"}

\* <<use_functions, stream>> of a call.  With use_functions the tools are
\* never empty and stream is not read (line 593), so one value stands for both.
CallFlags == {<<TRUE, TRUE>>, <<FALSE, TRUE>>, <<FALSE, FALSE>>}

MaxPlainTurns == 7      \* process_command calls of a plain conversation

\* The texts of a plain conversation: one without and one with a keyword of
\* ContextManager.is_important ("result", context_manager.py line 59).
PlainInputs == {"What time is it?", "What was the result?"}

\* A plain conversation is held in batch mode, with or without tools.
PlainFlags == {<<TRUE, TRUE>>, <<FALSE, FALSE>>}

Call(id, fname, arguments) == [id |-> id, name |-> fname, arguments |-> arguments]

\* The function_calls lists the LLM may put in one response: one call that
\* succeeds, or an unknown name followed by a call with a missing argument
\* and by a callable that raises (its arguments are not valid JSON).
FcChoices ==
    { <<Call("call_1", "get_current_time", "{}")>>,
      <<Call("call_1", "open_pod_bay", "{}"),
        Call("call_2", "test_add", "{\"a\": 5}"),
        Call("call_3", "boom", "{oops")>> }

\* The function calls the LLM may answer with: any of FcChoices to the first
\* request of a call; after the results of its calls it asks for the same
\* calls again (or answers plainly, which is calls = <<>>).
ResponseCalls(iter, previous) ==
    IF iter = 0 THEN FcChoices ELSE {previous} \ {<<>>}

\* json.loads of the arguments string, reduced to the keys of the mapping;
\* invalid JSON is replaced by {} (lines 624-628).
parse_arguments(arguments) ==
    IF arguments = "{\"a\": 5}" THEN {"a"}
    ELSE IF arguments = "{\"a\": 5, \"b\": 3}" THEN {"a", "b"}
    ELSE {}

Digit(i) == IF i = 1 THEN "1" ELSE IF i = 2 THEN "2" ELSE IF i = 3 THEN "3"
            ELSE IF i = 4 THEN "4" ELSE IF i = 5 THEN "5" ELSE "6"

\* The text the LLM answers with on its n-th invocation of a call.
ResponseText(n) == "Answer " \o Digit(n)

\* The deltas of an LLM stream, in the order it yields them: two short
\* sentences, repeated.  A stream yields any number of them up to MaxDeltas
\* before it is done or raises.
StreamScript ==
    << <<"H","e","l","l","o","."," ">>, <<"W","o","r","l","d","."," ">> >>

NextDelta(seen) == StreamScript[(seen % Len(StreamScript)) + 1]

RECURSIVE JoinChars(_)
JoinChars(text) ==
    IF text = <<>> THEN "" ELSE Head(text) \o JoinChars(Tail(text))

\* The tools argument of llm.chat at line 609 given on every iteration.
chat_tools_EveryIteration(tool_descriptors, iter) == tool_descriptors

\* The tools argument of llm.chat in the loop: tools if iteration == 1 else
\* None (TRUE: the descriptors are passed, FALSE: None or no descriptors).
chat_tools(tool_descriptors, iter) == tool_descriptors /\ iter = 1

LogEntry(method, messages, with_tools, raised, resp, calls) ==
    [method |-> method, messages |-> messages, tools |-> with_tools,
     raised |-> raised, response |-> resp, function_calls |-> calls]

\* An entry of the observation log of a call: which step of the for loop
\* over the function calls ran, for which call, with what result; the
\* append step also records the tool message it appended.
Event(ev, iter, index, result, message) ==
    [ev |-> ev, iteration |-> iter, index |-> index,
     result |-> result, message |-> message]

\* Line 579: the loop condition.
LoopContinues_OffByOne(iter) == iter <= max_iterations

LoopContinues(iter) == iter < max_iterations

\* Line 593: the streaming branch is taken.
TakesStream(strm, iter, has_tools) == strm /\ iter = 1 /\ ~has_tools

\* Line 620: the call the for loop is at.
CurrentCall_Reversed(calls, index) == calls[Len(calls) - index + 1]

CurrentCall(calls, index) == calls[index]

\* Lines 641-658: the tool message for a call and its result.
tool_message_NoErrorText(fc, result) ==
    ToolMsg(result.result, fc.id, fc.name)

tool_message(fc, result) ==
    IF result.success
    THEN ToolMsg(result.result, fc.id, fc.name)
    ELSE ToolMsg("Error: " \o result.error, fc.id, fc.name)

\* Lines 668-677: the history after the reply was appended.
history_with_reply_NoFallback(history, final, resp) ==
    IF final = None THEN history
    ELSE Append(history, Msg("assistant", final[1]))

history_with_reply(history, final, resp) ==
    Append(history, Msg("assistant", IF final = None THEN resp ELSE final[1]))

\* Lines 596-603 and 771-779: where an exception of llm.chat goes.  No
\* handler encloses the call: the exception leaves process_command.
OnChatError_Swallowed == "finish"

OnChatError == "raised"

\* Line 768: where an exception of the streaming branch goes.
OnStreamError_Propagates == "raised"

OnStreamError == "fallback"

CmdIdle ==
    /\ conversation_history = <<>>
    /\ managed_history = <<>>
    /\ aliased = TRUE
    /\ hook_mode = "none"
    /\ pc = "off"
    /\ turn = 0
    /\ history_before = <<>>
    /\ user_input = ""
    /\ use_functions = TRUE
    /\ stream = TRUE
    /\ tools = FALSE
    /\ iteration = 0
    /\ response = ""
    /\ function_calls = <<>>
    /\ fc_index = 0
    /\ fc_stage = "none"
    /\ func_result = NoResult
    /\ final_response = None
    /\ returned = None
    /\ llm_log = <<>>
    /\ events = <<>>
    /\ fc_budget = 0
    /\ saves = 0
    /\ full_response = <<>>
    /\ splitter_buffer = <<>>
    /\ sentences_spoken = <<>>
    /\ speech = <<>>
    /\ deltas_seen = 0

\* An assistant without plugins whose LLM answers in plain text only.
CmdPlainInit ==
    /\ conversation_history = <<SystemPrompt>>
    /\ managed_history = <<>>
    /\ aliased = TRUE
    /\ hook_mode = "none"
    /\ pc = "idle"
    /\ turn = 0
    /\ history_before = <<>>
    /\ user_input = ""
    /\ use_functions = TRUE
    /\ stream = TRUE
    /\ tools = FALSE
    /\ iteration = 0
    /\ response = ""
    /\ function_calls = <<>>
    /\ fc_index = 0
    /\ fc_stage = "none"
    /\ func_result = NoResult
    /\ final_response = None
    /\ returned = None
    /\ llm_log = <<>>
    /\ events = <<>>
    /\ fc_budget = 0
    /\ saves = 0
    /\ full_response = <<>>
    /\ splitter_buffer = <<>>
    /\ sentences_spoken = <<>>
    /\ speech = <<>>
    /\ deltas_seen = 0

\* AssistantCore.__init__ (lines 157-171): the history holds the system prompt.
CmdInit ==
    /\ conversation_history = <<SystemPrompt>>
    /\ managed_history = <<>>
    /\ aliased = TRUE
    /\ hook_mode \in HookModes
    /\ pc = "idle"
    /\ turn = 0
    /\ history_before = <<>>
    /\ user_input = ""
    /\ use_functions = TRUE
    /\ stream = TRUE
    /\ tools = FALSE
    /\ iteration = 0
    /\ response = ""
    /\ function_calls = <<>>
    /\ fc_index = 0
    /\ fc_stage = "none"
    /\ func_result = NoResult
    /\ final_response = None
    /\ returned = None
    /\ llm_log = <<>>
    /\ events = <<>>
    /\ fc_budget = MaxFcResponses
    /\ saves = 0
    /\ full_response = <<>>
    /\ splitter_buffer = <<>>
    /\ sentences_spoken = <<>>
    /\ speech = <<>>
    /\ deltas_seen = 0

stream_vars == <<full_response, splitter_buffer, sentences_spoken, speech, deltas_seen>>
call_args == <<history_before, user_input, use_functions, stream, tools>>
fc_vars == <<function_calls, fc_index, fc_stage, func_result>>

\* Lines 542-577: append the user message, manage the context and commit
\* it, prepare the tools, initialise the loop.
StartTurnWithin(limit, input, with_functions, with_stream) ==
    /\ pc \in {"idle", "done", "raised"}
    /\ turn < limit
    /\ turn' = turn + 1
    /\ history_before' = conversation_history
    /\ user_input' = input
    /\ use_functions' = with_functions
    /\ stream' = with_stream
    /\ LET appended == Append(conversation_history, Msg("user", input))
           managed == manage_context(appended, CmdMaxMessages, CmdThreshold,
                                     CmdCallback, TRUE)
       IN  /\ managed_history' = managed
           /\ conversation_history' = IF managed # appended THEN managed ELSE appended
           \* manage_context returns its argument itself only when the list
           \* is within max_messages; a differing list is committed.
           /\ aliased' = (Len(appended) <= CmdMaxMessages \/ managed # appended)
    \* format_functions_for_llm is never empty: the built-ins are registered.
    /\ tools' = with_functions
    /\ iteration' = 0
    /\ final_response' = None
    /\ response' = ""
    /\ function_calls' = <<>>
    /\ fc_index' = 0
    /\ fc_stage' = "none"
    /\ func_result' = NoResult
    /\ llm_log' = <<>>
    /\ events' = <<>>
    /\ full_response' = <<>>
    /\ splitter_buffer' = <<>>
    /\ sentences_spoken' = <<>>
    /\ speech' = <<>>
    /\ deltas_seen' = 0
    /\ returned' = None
    /\ pc' = "loop"
    /\ UNCHANGED <<hook_mode, fc_budget, saves>>

StartTurn(input, with_functions, with_stream) ==
    StartTurnWithin(MaxTurns, input, with_functions, with_stream)

\* Lines 579-618, batch branch: BEFORE_LLM hook, llm.chat, AFTER_LLM hook,
\* and the test for function calls.  calls = <<>> is a plain answer.
Chat(raises, calls) ==
    /\ pc = "loop"
    /\ LoopContinues(iteration)
    /\ ~TakesStream(stream, iteration + 1, tools)
    /\ calls # <<>> => fc_budget > 0
    /\ iteration' = iteration + 1
    /\ managed_history' = hooked_history(managed_history, hook_mode)
    /\ aliased' = hooked_alias(aliased, hook_mode)
    /\ llm_log' = Append(llm_log,
            LogEntry("chat", managed_history', chat_tools(tools, iteration'), raises,
                     IF raises THEN "" ELSE ResponseText(iteration'),
                     IF raises THEN <<>> ELSE calls))
    /\ IF raises
       THEN /\ pc' = OnChatError
            /\ UNCHANGED <<response, fc_vars, final_response, fc_budget>>
       ELSE /\ response' = ResponseText(iteration')
            /\ function_calls' = calls
            /\ func_result' = NoResult
            /\ IF use_functions /\ calls # <<>>
               THEN /\ pc' = "calls"
                    /\ fc_index' = 1
                    /\ fc_stage' = "before"
                    /\ final_response' = final_response
               ELSE /\ pc' = "finish"
                    /\ fc_index' = 0
                    /\ fc_stage' = "none"
                    /\ final_response' = Some(response')
            /\ fc_budget' = IF calls # <<>> THEN fc_budget - 1 ELSE fc_budget
    /\ UNCHANGED <<conversation_history, hook_mode, turn, call_args, returned,
                   events, saves, stream_vars>>

\* Line 579 is false: the loop ends without a final response.
LoopExhausted ==
    /\ pc = "loop"
    /\ ~LoopContinues(iteration)
    /\ pc' = "finish"
    /\ UNCHANGED <<conversation_history, managed_history, aliased, hook_mode, turn,
                   call_args, iteration, response, fc_vars, final_response,
                   returned, llm_log, events, fc_budget, saves, stream_vars>>

\* Lines 621-633: read the call, parse its arguments, BEFORE_FUNCTION_CALL hook.
FcBefore ==
    /\ pc = "calls" /\ fc_stage = "before"
    /\ events' = Append(events, Event("before_function_call", iteration, fc_index, NoResult, None))
    /\ fc_stage' = "execute"
    /\ UNCHANGED <<conversation_history, managed_history, aliased, hook_mode, pc, turn,
                   call_args, iteration, response, function_calls, fc_index,
                   func_result, final_response, returned, llm_log, fc_budget, saves,
                   stream_vars>>

\* Line 636: function_handler.execute.
FcExecute(outcome) ==
    /\ pc = "calls" /\ fc_stage = "execute"
    /\ LET fc == CurrentCall(function_calls, fc_index)
       IN  /\ outcome \in OutcomesOf(fc.name)
           /\ func_result' = execute(fc.name, parse_arguments(fc.arguments), outcome)
    /\ events' = Append(events,
                         Event("execute", iteration, fc_index, func_result', None))
    /\ fc_stage' = "after"
    /\ UNCHANGED <<conversation_history, managed_history, aliased, hook_mode, pc, turn,
                   call_args, iteration, response, function_calls, fc_index,
                   final_response, returned, llm_log, fc_budget, saves, stream_vars>>

\* Line 639: AFTER_FUNCTION_CALL hook.
FcAfter ==
    /\ pc = "calls" /\ fc_stage = "after"
    /\ events' = Append(events, Event("after_function_call", iteration, fc_index, func_result, None))
    /\ fc_stage' = "append"
    /\ UNCHANGED <<conversation_history, managed_history, aliased, hook_mode, pc, turn,
                   call_args, iteration, response, function_calls, fc_index,
                   func_result, final_response, returned, llm_log, fc_budget, saves,
                   stream_vars>>

\* Lines 641-662: append the tool message to managed_history (and so to the
\* canonical history when both are one list); next call, or back to the loop.
FcAppend ==
    /\ pc = "calls" /\ fc_stage = "append"
    /\ LET msg == tool_message(CurrentCall(function_calls, fc_index), func_result)
       IN  /\ managed_history' = Append(managed_history, msg)
           /\ conversation_history' =
                 IF aliased THEN Append(conversation_history, msg)
                 ELSE conversation_history
           /\ events' = Append(events,
                 Event("append", iteration, fc_index, func_result, Some(msg)))
    /\ IF fc_index < Len(function_calls)
       THEN /\ fc_index' = fc_index + 1
            /\ fc_stage' = "before"
            /\ pc' = pc
       ELSE /\ fc_index' = fc_index
            /\ fc_stage' = "none"
            /\ pc' = "loop"
    /\ UNCHANGED <<aliased, hook_mode, turn, call_args, iteration, response,
                   function_calls, func_result, final_response, returned, llm_log,
                   fc_budget, saves, stream_vars>>

\* Lines 668-683: fall back to the last response, append the assistant
\* message, save every 10th message, return.
Finish ==
    /\ pc = "finish"
    /\ conversation_history' =
          history_with_reply(conversation_history, final_response, response)
    /\ managed_history' =
          IF aliased
          THEN history_with_reply(managed_history, final_response, response)
          ELSE managed_history
    /\ saves' = IF Len(conversation_history') % 10 = 0 THEN saves + 1 ELSE saves
    /\ returned' = Some(IF final_response = None THEN response ELSE final_response[1])
    /\ pc' = "done"
    /\ UNCHANGED <<aliased, hook_mode, turn, call_args, iteration, response, fc_vars,
                   final_response, llm_log, events, fc_budget, stream_vars>>

(***************************************************************************)
(* AssistantCore._process_streaming_response                               *)
(***************************************************************************)
\* Lines 579-593 and 701-719: BEFORE_LLM hook, streaming branch taken, a
\* fresh SentenceSplitter, llm.stream_chat.
StreamOpen(raises) ==
    /\ pc = "loop"
    /\ LoopContinues(iteration)
    /\ TakesStream(stream, iteration + 1, tools)
    /\ iteration' = iteration + 1
    /\ managed_history' = hooked_history(managed_history, hook_mode)
    /\ aliased' = hooked_alias(aliased, hook_mode)
    /\ llm_log' = Append(llm_log,
            LogEntry("stream_chat", managed_history', FALSE, raises, "", <<>>))
    /\ pc' = IF raises THEN OnStreamError ELSE "stream"
    /\ UNCHANGED <<conversation_history, hook_mode, turn, call_args, response, fc_vars,
                   final_response, returned, events, fc_budget, saves, stream_vars>>

\* A loop over the sentences that dispatches none of them.
NewSentences_NoneDispatched(sentences, spoken) == <<>>

\* Lines 739-749: the sentences of one add_text result that are dispatched.
NewSentences(sentences, spoken) ==
    SelectSeq(sentences,
              LAMBDA t : t # <<>> /\ \A i \in 1..Len(spoken) : spoken[i] # t)

\* Lines 722-749: one delta of the stream.
StreamDelta(delta) ==
    /\ pc = "stream"
    /\ deltas_seen < MaxDeltas
    /\ delta = NextDelta(deltas_seen)
    /\ deltas_seen' = deltas_seen + 1
    /\ full_response' = full_response \o delta
    /\ LET r == add_text(splitter_buffer, delta, DefaultMinSentenceLength)
           fresh == NewSentences(r.sentences, sentences_spoken)
       IN  /\ splitter_buffer' = r.buffer
           /\ sentences_spoken' = sentences_spoken \o fresh
           /\ speech' = speech \o fresh
    /\ UNCHANGED <<conversation_history, managed_history, aliased, hook_mode, pc, turn,
                   call_args, iteration, response, fc_vars, final_response, returned,
                   llm_log, events, fc_budget, saves>>

\* An exception while the stream is consumed or flushed (line 768).
StreamRaise ==
    /\ pc = "stream"
    /\ pc' = OnStreamError
    /\ UNCHANGED <<conversation_history, managed_history, aliased, hook_mode, turn,
                   call_args, iteration, response, fc_vars, final_response, returned,
                   llm_log, events, fc_budget, saves, stream_vars>>

\* Lines 723-724, 751-766 and 600-603: the stream is done; flush, speak a
\* remainder longer than 10 characters, return the stripped response.
StreamDone ==
    /\ pc = "stream"
    /\ LET remaining == flush(splitter_buffer)
       IN  speech' = IF remaining # None /\ Len(Strip(remaining[1])) > 10
                     THEN Append(speech, Strip(remaining[1]))
                     ELSE speech
    /\ splitter_buffer' = <<>>
    /\ response' = JoinChars(Strip(full_response))
    /\ final_response' = Some(response')
    /\ pc' = "finish"
    /\ UNCHANGED <<conversation_history, managed_history, aliased, hook_mode, turn,
                   call_args, iteration, fc_vars, returned, llm_log, events,
                   fc_budget, saves, full_response, sentences_spoken, deltas_seen>>

\* Lines 768-779 and 600-603: the batch call that replaces a failed stream.
Fallback(raises) ==
    /\ pc = "fallback"
    /\ llm_log' = Append(llm_log,
            LogEntry("chat", managed_history, FALSE, raises,
                     IF raises THEN "" ELSE ResponseText(Len(llm_log) + 1), <<>>))
    /\ IF raises
       THEN /\ pc' = OnChatError
            /\ UNCHANGED <<response, final_response>>
       ELSE /\ response' = ResponseText(Len(llm_log) + 1)
            /\ final_response' = Some(response')
            /\ pc' = "finish"
    /\ UNCHANGED <<conversation_history, managed_history, aliased, hook_mode, turn,
                   call_args, iteration, fc_vars, returned, events, fc_budget, saves,
                   stream_vars>>

(***************************************************************************)
(* Claims about process_command (checked under Spec and SpecLive)          *)
(***************************************************************************)
\* A process_command call is under way.
InCall == pc \in {"loop", "calls", "stream", "fallback", "finish"}

\* The call is over: it returned, or an exception left it.
CallEnded == pc \in {"done", "raised"}

LastOf(seq) == seq[Len(seq)]

CountRole(history, role) == Len(SelectSeq(history, LAMBDA m : m.role = role))

Contains(history, message) == \E i \in 1..Len(history) : history[i] = message

\* C1: in one process_command call the LLM is invoked (chat plus
\* stream_chat) at most max_iterations = 5 times whatever it answers, and
\* the call then ends: it returns, the only other way out being an
\* exception raised by the LLM call itself.
C1_AtMostFiveInvocationsThenReturns ==
    /\ [](Len(llm_log) <= max_iterations)
    /\ [](pc = "raised" => llm_log # <<>> /\ LastOf(llm_log).raised)
    /\ [](pc = "done" => returned # None)
    /\ (InCall ~> CallEnded)

\* C1 witness: the LLM put a function call in each of five responses and
\* the call returned after the fifth.
C1_Witness ==
    /\ pc = "done"
    /\ Len(llm_log) = max_iterations
    /\ \A i \in 1..Len(llm_log) : llm_log[i].function_calls # <<>>
    /\ use_functions

\* Consequence of C3 for process_command, which only calls manage_context:
\* over every sequence of turns the first entry of the canonical history
\* is the original system prompt.
SystemPromptStaysFirst ==
    conversation_history # <<>> /\ conversation_history[1] = SystemPrompt

\* C4: whenever process_command returns, the last message of the canonical
\* history is an assistant message whose content is the returned string,
\* and it is the one assistant message the call appended: the step that
\* returns adds exactly one, no other step of the call adds or removes
\* one, and the start of the call adds none.
C4_ExactlyOneAssistantMessageAppended ==
    /\ [](pc = "done" =>
            /\ returned # None
            /\ conversation_history # <<>>
            /\ LastOf(conversation_history) = Msg("assistant", returned[1]))
    /\ [][ IF InCall
           THEN CountRole(conversation_history', "assistant") =
                    CountRole(conversation_history, "assistant")
                        + (IF pc' = "done" THEN 1 ELSE 0)
           ELSE CountRole(conversation_history', "assistant") <=
                    CountRole(conversation_history, "assistant") ]_vars

\* C4 witness: the call returned through the max-iteration fallback.
C4_Witness ==
    /\ pc = "done"
    /\ final_response = None
    /\ iteration = max_iterations
    /\ LastOf(conversation_history) = Msg("assistant", returned[1])

Stages == <<"before_function_call", "execute", "after_function_call", "append">>

\* The log entries of the function calls of one iteration.
IterEvents(iter) == SelectSeq(events, LAMBDA e : e.iteration = iter)

\* How many tool messages the current iteration has appended.
AppendedNow == Len(SelectSeq(IterEvents(iteration), LAMBDA e : e.ev = "append"))

\* C5: the function calls c1..cn of one response are handled one at a
\* time in the order c1..cn, each one's before hook, execution, after hook
\* and append completing before the next call starts, and the tool
\* messages are appended in that order, each tagged with the id and the
\* name of its own call.
C5_CallsSequentialInOrder ==
    /\ \A k \in 1..(Len(events) - 1) : events[k].iteration <= events[k + 1].iteration
    /\ \A iter \in 1..max_iterations :
          LET es == IterEvents(iter)
          IN  /\ es # <<>> =>
                    /\ iter <= Len(llm_log)
                    /\ Len(es) <= 4 * Len(llm_log[iter].function_calls)
              /\ \A k \in 1..Len(es) :
                    /\ es[k].ev = Stages[((k - 1) % 4) + 1]
                    /\ es[k].index = ((k - 1) \div 4) + 1
    /\ (pc = "calls" \/ (pc = "loop" /\ iteration > 0)) =>
          /\ AppendedNow <= Len(managed_history)
          /\ \A j \in 1..AppendedNow :
                LET m == managed_history[Len(managed_history) - AppendedNow + j]
                IN  /\ m.role = "tool"
                    /\ m.tool_call_id = function_calls[j].id
                    /\ m.name = function_calls[j].name

\* C5 witness: a response with three calls was handled to the end.
C5_Witness ==
    /\ pc = "loop"
    /\ Len(function_calls) = 3
    /\ Len(IterEvents(iteration)) = 12
    /\ AppendedNow = 3

\* The append entries of the log whose function execution failed.
FailedAppends ==
    { k \in 1..Len(events) : events[k].ev = "append" /\ ~events[k].result.success }

\* The calls of the response the log entry belongs to.
CallsOf(e) == llm_log[e.iteration].function_calls

ExecutedIn(iter) == Len(SelectSeq(IterEvents(iter), LAMBDA e : e.ev = "execute"))

Streamed == llm_log # <<>> /\ llm_log[1].method = "stream_chat"

\* C7: when stream_chat, the processing of a delta or the flush raises,
\* the error does not leave process_command: chat is invoked, once, with
\* the messages (and no tools) stream_chat was given, and when that chat
\* call succeeds its response is returned and appended as the assistant
\* message.  Only an exception of that chat call leaves the call.
C7_StreamErrorFallsBackToChat ==
    /\ [](Streamed =>
            /\ Len(llm_log) <= 2
            /\ pc = "raised" => Len(llm_log) = 2 /\ llm_log[2].raised
            /\ Len(llm_log) = 2 =>
                  /\ llm_log[2].method = "chat"
                  /\ llm_log[2].messages = llm_log[1].messages
                  /\ llm_log[2].tools = llm_log[1].tools
                  /\ pc = "done" =>
                        /\ returned = Some(llm_log[2].response)
                        /\ LastOf(conversation_history) =
                              Msg("assistant", llm_log[2].response))
    /\ [](pc = "fallback" => Streamed /\ Len(llm_log) = 1)
    /\ [][ pc = "fallback" =>
              /\ Len(llm_log') = 2
              /\ pc' = IF llm_log'[2].raised THEN "raised" ELSE "finish" ]_vars

\* C7 witness: the stream raised after a delta had been processed, the
\* chat call succeeded and its response was returned.
C7_Witness ==
    /\ pc = "done"
    /\ Streamed /\ ~llm_log[1].raised
    /\ deltas_seen > 0
    /\ Len(llm_log) = 2
    /\ returned = Some(llm_log[2].response)

\* The tool messages the call appended to managed_history, in order.
ToolMessagesOfCall ==
    LET appends == SelectSeq(events, LAMBDA e : e.ev = "append")
    IN  [i \in 1..Len(appends) |-> appends[i].message[1]]

\* The call was made with use_functions = true on a history that, with the
\* user message, is within max_messages, and it returned.
ReturnedWithinBudget ==
    /\ pc = "done"
    /\ use_functions
    /\ Len(history_before) + 1 <= CmdMaxMessages

\* Some BEFORE_LLM callback result made managed_history a new list.
HookRebinds == hook_mode \in {"copy", "dict"}

StreamedHelloWorld ==
    /\ pc = "done"
    /\ Len(llm_log) = 1 /\ llm_log[1].method = "stream_chat"
    /\ deltas_seen = 2
    /\ full_response = StreamScript[1] \o StreamScript[2]

HelloText == <<"H","e","l","l","o",".">>
WorldText == <<"W","o","r","l","d",".">>

\* C13 as stated: the segmenter emits "Hello." and then "World.", two
\* speech dispatches occur in that order, and "Hello. World." is returned.
C13_TwoSentencesTwoDispatches ==
    StreamedHelloWorld =>
        /\ sentences_spoken = <<HelloText, WorldText>>
        /\ speech = <<HelloText, WorldText>>
        /\ returned = Some("Hello. World.")

\* C13, amended: "Hello." and "World." are each shorter than the default
\* min_sentence_length of 10, so the segmenter emits nothing for the first
\* delta and the single sentence "Hello. World." for the second; exactly
\* one speech dispatch occurs, and "Hello. World." is returned.
C13_OneMergedSentence ==
    StreamedHelloWorld =>
        /\ sentences_spoken = <<HelloText \o <<" ">> \o WorldText>>
        /\ speech = sentences_spoken
        /\ returned = Some("Hello. World.")

\* C13 witness: such a call returned and its one dispatch is the merged text.
C13_Witness ==
    /\ StreamedHelloWorld
    /\ Len(speech) = 1
    /\ JoinChars(speech[1]) = "Hello. World."

\* C15: within one process_command turn the tool descriptors are passed to
\* the LLM only on the chat call of iteration 1 (and there they are passed
\* when the turn has tools); every chat call of iterations 2 to 5 is made
\* with tools absent, whatever the earlier responses were.
C15_ToolsOnlyOnFirstChat ==
    \A i \in 1..Len(llm_log) :
        /\ llm_log[i].tools => (i = 1 /\ llm_log[i].method = "chat")
        /\ (i = 1 /\ tools) => (llm_log[i].method = "chat" /\ llm_log[i].tools)
        /\ (tools /\ i > 1) => (llm_log[i].method = "chat" /\ ~llm_log[i].tools)

\* C15 witness: a turn with tools made its 5th chat call, each earlier
\* response having asked for function calls.
C15_Witness ==
    /\ tools
    /\ Len(llm_log) = max_iterations
    /\ llm_log[1].tools
    /\ \A i \in 1..(max_iterations - 1) : llm_log[i].function_calls # <<>>
    /\ \A i \in 2..max_iterations :
          llm_log[i].method = "chat" /\ ~llm_log[i].tools

\* C22: a conversation-state save is triggered for every 10th message: at
\* least one save per 10 messages appended to the conversation history.
\* Stated for the first call on an assistant, whose history held the system
\* prompt alone and is not pruned: once the call has returned with 10 or
\* more messages appended, a save has been triggered.
C22_SaveEveryTenthMessage ==
    (turn = 1 /\ pc = "done" /\ Len(conversation_history) - Len(history_before) >= 10)
        => saves >= 1

\* The segmenter of a streaming response after the first n deltas of the
\* stream: its buffer and every sentence add_text has returned, in order.
RECURSIVE SplitterAfter(_)
SplitterAfter(n) ==
    IF n = 0 THEN [buffer |-> <<>>, emitted |-> <<>>]
    ELSE LET before == SplitterAfter(n - 1)
             r == add_text(before.buffer, NextDelta(n - 1), DefaultMinSentenceLength)
         IN  [buffer |-> r.buffer, emitted |-> before.emitted \o r.sentences]

\* C23: during a streaming response, every sentence emitted by the
\* segmenter causes exactly one speech dispatch, and the dispatches are
\* started in the order in which the sentences were detected, also when the
\* stream contains the same sentence text more than once.
C23_EverySentenceDispatchedOnce ==
    pc = "stream" => speech = SplitterAfter(deltas_seen).emitted

\* C24: in a call without BEFORE_LLM hook the list passed to the first LLM
\* call ends with the user message of the call, whether or not the context
\* was pruned or summarized and whatever the user's text is.
C24_UserMessageLastInFirstCall ==
    (hook_mode = "none" /\ Len(llm_log) >= 1)
        => llm_log[1].messages[Len(llm_log[1].messages)] = Msg("user", user_input)

\* C28: in a conversation of plain turns the history that reaches
\* manage_context (the history before the call and the user message) is
\* never longer than max_messages + 2.
C28_HistoryLengthBounded ==
    (hook_mode = "none" /\ turn >= 1)
        => Len(history_before) + 1 <= CmdMaxMessages + 2

\* C25: after process_command has returned, the canonical history holds one
\* tool message for every function call executed during the call, in
\* execution order and directly before the assistant message of the call,
\* whatever the BEFORE_LLM callbacks return.
C25_ToolMessagesInCanonicalHistory ==
    pc = "done" =>
        LET k == Len(ToolMessagesOfCall)
            n == Len(conversation_history)
        IN  /\ n >= k + 1
            /\ SubSeq(conversation_history, n - k, n - 1) = ToolMessagesOfCall

\* The canonical history as the start of the call left it (lines 542-564):
\* the history before the call with the user message, replaced by the
\* managed list when manage_context changed it.
CommittedAtStart ==
    LET appended == Append(history_before, Msg("user", user_input))
        managed == manage_context(appended, CmdMaxMessages, CmdThreshold,
                                  CmdCallback, TRUE)
    IN  IF managed # appended THEN managed ELSE appended

\* C26: when a batch chat call raises, on any iteration or as the fallback
\* of a failed stream, the exception leaves process_command and nothing is
\* rolled back: the step that raises leaves the canonical history as it
\* is, and the history then is what the start of the call committed (the
\* user message appended, the pruning applied) followed by the tool
\* messages appended to it, with no assistant message and nothing returned.
C26_ChatErrorPropagatesNothingRolledBack ==
    /\ [][ ( /\ Len(llm_log') = Len(llm_log) + 1
             /\ llm_log'[Len(llm_log')].method = "chat"
             /\ llm_log'[Len(llm_log')].raised )
           => ( /\ pc' = "raised"
                /\ conversation_history' = conversation_history
                /\ returned' = returned ) ]_vars
    /\ [](pc = "raised" =>
            /\ returned = None
            /\ conversation_history =
                  CommittedAtStart \o (IF aliased THEN ToolMessagesOfCall ELSE <<>>))

\* C26 witness: the second call on an assistant, whose start committed a
\* pruned history; the first chat call asked for a function call, the tool
\* message was appended, and the second chat call raised.
C26_Witness ==
    /\ pc = "raised"
    /\ turn = 2
    /\ hook_mode = "none"
    /\ CommittedAtStart # Append(history_before, Msg("user", user_input))
    /\ Len(llm_log) = 2
    /\ Len(ToolMessagesOfCall) >= 1
    /\ conversation_history = CommittedAtStart \o ToolMessagesOfCall

\* How often message m occurs in a list.
Occurrences(messages, m) == Len(SelectSeq(messages, LAMBDA x : x = m))

\* C30: on its summarization path manage_context returns messages of its
\* input and exactly one new message "Previous conversation summary: ...",
\* and no message of the input occurs more often in the output than in the
\* input, wherever the system messages are in the input.
C30_SummaryPathNoDuplicates ==
    CtxSummaryPath =>
        LET summary_message == SummaryMessage(SummaryText)
        IN  /\ Occurrences(ctx_out, summary_message) = 1
            /\ \A k \in 1..Len(ctx_out) :
                  \/ ctx_out[k] = summary_message
                  \/ /\ Occurrences(ctx_messages, ctx_out[k]) >= 1
                     /\ Occurrences(ctx_out, ctx_out[k])
                            <= Occurrences(ctx_messages, ctx_out[k])

(***************************************************************************)
(* PluginManager.execute_hook (src/src/plugins/plugin_manager.py)          *)
(***************************************************************************)
MaxHooks == 3           \* most callbacks registered for the hook

PluginNames == {"example", "test_plugin"}

\* What a registered callback does when it is invoked.
HookOutcomes == {"return", "raise"}

\* An entry of self.hooks[hook]: (plugin_name, callback).
Registration(plugin_name, outcome) == [plugin |-> plugin_name, outcome |-> outcome]

Registrations == { Registration(p, o) : p \in PluginNames, o \in HookOutcomes }

HookRegistries == UNION { [1..n -> Registrations] : n \in 0..MaxHooks }

\* The loop body of execute_hook whose handler re-raises.
callback_step_Propagates(registration, index, invoked, results) ==
    IF ~hk_enabled[registration.plugin]
    THEN [pc |-> "loop", invoked |-> invoked, results |-> results]
    ELSE IF registration.outcome = "return"
    THEN [pc |-> "loop", invoked |-> Append(invoked, index),
          results |-> Append(results, index)]
    ELSE [pc |-> "raised", invoked |-> Append(invoked, index), results |-> results]

\* The loop body of execute_hook for one registration (lines 191-200): a
\* callback of a disabled plugin is skipped; otherwise it is invoked, its
\* result is appended, and an exception is logged and swallowed.  The
\* result of the callback registered at position i is written i.
callback_step(registration, index, invoked, results) ==
    IF ~hk_enabled[registration.plugin]
    THEN [pc |-> "loop", invoked |-> invoked, results |-> results]
    ELSE IF registration.outcome = "return"
    THEN [pc |-> "loop", invoked |-> Append(invoked, index),
          results |-> Append(results, index)]
    ELSE [pc |-> "loop", invoked |-> Append(invoked, index), results |-> results]

HkIdle ==
    /\ hk_enabled = [p \in PluginNames |-> TRUE]
    /\ hk_hooks = <<>>
    /\ hk_pc = "idle"
    /\ hk_index = 0
    /\ hk_invoked = <<>>
    /\ hk_results = <<>>

HkInit ==
    /\ hk_enabled \in [PluginNames -> BOOLEAN]
    /\ hk_hooks \in HookRegistries
    /\ hk_pc = "idle"
    /\ hk_index = 0
    /\ hk_invoked = <<>>
    /\ hk_results = <<>>

\* execute_hook is called: with no registration it returns [] at once
\* (lines 187-188), otherwise the for loop starts.
ExecuteHook ==
    /\ hk_pc \in {"idle", "returned"}
    /\ hk_pc' = IF hk_hooks = <<>> THEN "returned" ELSE "loop"
    /\ hk_index' = 1
    /\ hk_invoked' = <<>>
    /\ hk_results' = <<>>
    /\ UNCHANGED <<hk_enabled, hk_hooks>>

\* One pass of the for loop.
HookCallback ==
    /\ hk_pc = "loop"
    /\ hk_index <= Len(hk_hooks)
    /\ LET after == callback_step(hk_hooks[hk_index], hk_index, hk_invoked, hk_results)
       IN  /\ hk_pc' = after.pc
           /\ hk_invoked' = after.invoked
           /\ hk_results' = after.results
    /\ hk_index' = hk_index + 1
    /\ UNCHANGED <<hk_enabled, hk_hooks>>

\* The for loop is exhausted: return results (line 202).
HookReturn ==
    /\ hk_pc = "loop"
    /\ hk_index > Len(hk_hooks)
    /\ hk_pc' = "returned"
    /\ UNCHANGED <<hk_enabled, hk_hooks, hk_index, hk_invoked, hk_results>>

\* enable_plugin / disable_plugin between two dispatches; what the last
\* dispatch did is no longer observed.
SetPluginEnabled(plugin_name, enabled) ==
    /\ hk_pc \in {"idle", "returned"}
    /\ hk_enabled[plugin_name] # enabled
    /\ hk_enabled' = [hk_enabled EXCEPT ![plugin_name] = enabled]
    /\ hk_pc' = "idle"
    /\ hk_index' = 0
    /\ hk_invoked' = <<>>
    /\ hk_results' = <<>>
    /\ UNCHANGED hk_hooks

(***************************************************************************)
(* Claims about execute_hook (checked under SpecHook)                      *)
(***************************************************************************)
\* The positions 1..n of a list, in order.
Positions(n) == [i \in 1..n |-> i]

\* The positions among the first n registrations whose plugin is enabled.
EnabledPositions(n) ==
    SelectSeq(Positions(n), LAMBDA i : hk_enabled[hk_hooks[i].plugin])

\* Those of them whose callback returns.
ReturningPositions(n) ==
    SelectSeq(EnabledPositions(n), LAMBDA i : hk_hooks[i].outcome = "return")

\* C17: execute_hook invokes every callback registered for the hook whose
\* plugin is enabled exactly once, in registration order; a callback that
\* raises does not prevent the later callbacks from running, and no
\* exception of a callback leaves execute_hook, which returns the results
\* of the callbacks that returned.
C17_EveryEnabledCallbackOnceInOrder ==
    /\ hk_pc # "raised"
    /\ hk_pc = "loop" =>
          /\ hk_invoked = EnabledPositions(hk_index - 1)
          /\ hk_results = ReturningPositions(hk_index - 1)
    /\ hk_pc = "returned" =>
          /\ hk_invoked = EnabledPositions(Len(hk_hooks))
          /\ hk_results = ReturningPositions(Len(hk_hooks))

\* C17 witness: the first callback raised, the second belongs to a disabled
\* plugin and was skipped, the third ran and its result was returned.
C17_Witness ==
    /\ hk_pc = "returned"
    /\ Len(hk_hooks) = 3
    /\ hk_hooks[1].outcome = "raise" /\ hk_enabled[hk_hooks[1].plugin]
    /\ ~hk_enabled[hk_hooks[2].plugin]
    /\ hk_hooks[3].outcome = "return"
    /\ hk_invoked = <<1, 3>>
    /\ hk_results = <<3>>

(***************************************************************************)
(* retry decorator (src/src/utils/retry.py)                                *)
(***************************************************************************)
MaxRetries == 2         \* largest max_retries of the retry harness

initial_delay == 1
max_delay == 60
exponential_base == 2

\* The exception types func raises in the harness, and the classes each is
\* an instance of (ConnectionError is a subclass of OSError).
RaisedTypes == {"RuntimeError", "ConnectionError", "ValueError"}

ClassesOf(exception_type) ==
    IF exception_type = "ConnectionError" THEN {"ConnectionError", "OSError"}
    ELSE {exception_type}

\* isinstance(e, types) for a tuple of types.
isinstance(exception_type, types) == ClassesOf(exception_type) \cap types # {}

\* The default of non_retryable_exceptions (lines 41-42).
DefaultNonRetryable == {"ValueError", "TypeError", "KeyError", "AttributeError"}

\* retryable_exceptions: None, or a tuple of types (possibly empty).
RetryableChoices ==
    {None} \cup { Some(types) : types \in SUBSET {"RuntimeError", "OSError", "ValueError"} }

\* non_retryable_exceptions as the wrapper sees it: the default when the
\* argument is None, or the tuple given (here the empty one).
NonRetryableChoices == {DefaultNonRetryable, {}}

\* Python truthiness of retryable_exceptions: None and () are falsy.
RetryableGiven(retryable) == retryable # None /\ retryable[1] # {}

RECURSIVE Pow(_, _)
Pow(base, exponent) == IF exponent = 0 THEN 1 ELSE base * Pow(base, exponent - 1)

\* min(initial_delay * (exponential_base ** attempt), max_delay), line 71.
backoff_delay(attempt) == Min(initial_delay * Pow(exponential_base, attempt), max_delay)

\* The except block with the last attempt tested one attempt too late.
on_exception_OneAttemptMore(e, attempt, max_retries, retryable, non_retryable) ==
    IF isinstance(e, non_retryable) THEN "raise"
    ELSE IF RetryableGiven(retryable) /\ ~isinstance(e, retryable[1]) THEN "raise"
    ELSE IF attempt > max_retries THEN "raise"
    ELSE "sleep"

\* What the except block of the wrapper does with exception e (lines
\* 53-80): re-raise it, or sleep and go to the next attempt.
on_exception(e, attempt, max_retries, retryable, non_retryable) ==
    IF isinstance(e, non_retryable) THEN "raise"
    ELSE IF RetryableGiven(retryable) /\ ~isinstance(e, retryable[1]) THEN "raise"
    ELSE IF attempt >= max_retries THEN "raise"
    ELSE "sleep"

RtIdle ==
    /\ rt_max_retries = 0
    /\ rt_retryable = None
    /\ rt_non_retryable = DefaultNonRetryable
    /\ rt_pc = "idle"
    /\ rt_attempt = 0
    /\ rt_calls = <<>>
    /\ rt_slept = <<>>

\* The decorator is applied with every combination of arguments.
RtInit ==
    /\ rt_max_retries \in 0..MaxRetries
    /\ rt_retryable \in RetryableChoices
    /\ rt_non_retryable \in NonRetryableChoices
    /\ rt_pc = "idle"
    /\ rt_attempt = 0
    /\ rt_calls = <<>>
    /\ rt_slept = <<>>

\* The wrapped function is called: the for loop starts with attempt 0.
RetryCall ==
    /\ rt_pc \in {"idle", "returned", "raised"}
    /\ rt_pc' = "attempt"
    /\ rt_attempt' = 0
    /\ rt_calls' = <<>>
    /\ rt_slept' = <<>>
    /\ UNCHANGED <<rt_max_retries, rt_retryable, rt_non_retryable>>

\* One pass of the for loop: func is invoked and returns, or raises and
\* the except block re-raises or sleeps.
RetryAttempt(outcome) ==
    /\ rt_pc = "attempt"
    /\ rt_calls' = Append(rt_calls, outcome)
    /\ IF outcome = "return"
       THEN /\ rt_pc' = "returned"
            /\ UNCHANGED <<rt_attempt, rt_slept>>
       ELSE IF on_exception(outcome, rt_attempt, rt_max_retries, rt_retryable,
                            rt_non_retryable) = "raise"
       THEN /\ rt_pc' = "raised"
            /\ UNCHANGED <<rt_attempt, rt_slept>>
       ELSE /\ rt_pc' = "attempt"
            /\ rt_slept' = Append(rt_slept, backoff_delay(rt_attempt))
            /\ rt_attempt' = rt_attempt + 1
    /\ UNCHANGED <<rt_max_retries, rt_retryable, rt_non_retryable>>

(***************************************************************************)
(* Claims about retry (checked under SpecRetry)                            *)
(***************************************************************************)
\* The call ended by an exception leaving the wrapper; the decorator was
\* given retryable_exceptions and no non_retryable_exceptions.
RaisedWithRetryable ==
    /\ rt_pc = "raised"
    /\ rt_retryable # None
    /\ rt_non_retryable = DefaultNonRetryable

MaxUtterances == 3      \* passes of the voice loop per behaviour

Greeting == "Hello! I'm Jane, your AI assistant. I'm ready to help you."
GoodbyeInterrupted == "Goodbye!"
GoodbyeRequested == "Goodbye! Have a great day!"
SpokenAnswer == "It is noon."
\* The text of the speak call that follows _process_user_input in the file
\* (line 939); no statement of run_voice_loop speaks it.
Apology == "I encountered an error. Please try again."

\* How one pass of the while loop can go: listen returns blank text; the
\* utterance holds an exit word; process_command answers (and the answer is
\* spoken by the streaming branch); listen or _process_user_input raises an
\* Exception; a KeyboardInterrupt arrives.
PassOutcomes ==
    {"silence", "exit_word", "answered", "listen_raised", "process_raised",
     "keyboard_interrupt"}

\* What is spoken during a pass with the given outcome: by
\* _process_user_input (lines 919-925) or by the except clauses of the
\* loop (lines 901-907, the second of which only logs).
spoken_in_pass(outcome) ==
    IF outcome = "exit_word" THEN <<GoodbyeRequested>>
    ELSE IF outcome = "answered" THEN <<SpokenAnswer>>
    ELSE IF outcome = "keyboard_interrupt" THEN <<GoodbyeInterrupted>>
    ELSE <<>>

VlIdle ==
    /\ vl_pc = "idle"
    /\ vl_speech = <<>>
    /\ vl_log = <<>>

\* run_voice_loop(use_wake_word=False) up to the while loop.
VoiceStart ==
    /\ vl_pc = "idle"
    /\ vl_pc' = "listen"
    /\ vl_speech' = Append(vl_speech, Greeting)
    /\ UNCHANGED vl_log

\* One pass of the while loop (lines 891-907): only a KeyboardInterrupt
\* breaks out of it.
VoicePass(outcome) ==
    /\ vl_pc = "listen"
    /\ Len(vl_log) < MaxUtterances
    /\ vl_log' = Append(vl_log, outcome)
    /\ vl_speech' = vl_speech \o spoken_in_pass(outcome)
    /\ vl_pc' = IF outcome = "keyboard_interrupt" THEN "stopped" ELSE "listen"

(***************************************************************************)
(* Claims about the voice loop (checked under SpecVoice)                   *)
(***************************************************************************)
\* C19: in the standard voice loop, when processing an utterance raises an
\* exception other than a keyboard interrupt, a spoken apology is produced
\* and the loop goes on to listen for the next utterance.
C19_ApologySpokenAndLoopGoesOn ==
    (vl_log # <<>> /\ vl_log[Len(vl_log)] = "process_raised")
        => /\ vl_pc = "listen"
           /\ vl_speech[Len(vl_speech)] = Apology

(***************************************************************************)
(* The BEFORE_LLM dispatch of process_command (lines 582-590)              *)
(***************************************************************************)
MaxCallbacks == 3       \* most BEFORE_LLM callbacks registered

\* What a registered BEFORE_LLM callback does with the list it is given:
\* it returns None, the list itself, a new list, a single message dict, or
\* it raises; or its plugin is disabled and it is not invoked.
BeforeLlmBehaviours == {"none", "same", "list", "dict", "raise", "disabled"}

\* The new list a callback returns.
HookList == <<Msg("system", "[plugin prompt]"), Msg("user", "[plugin question]")>>

\* The values execute_hook(BEFORE_LLM, managed_history) returns: one per
\* callback that was invoked and returned, in registration order.
RECURSIVE before_llm_results(_, _)
before_llm_results(callbacks, managed) ==
    IF callbacks = <<>> THEN <<>>
    ELSE LET rest == before_llm_results(Tail(callbacks), managed)
             behaviour == Head(callbacks)
         IN  IF behaviour \in {"raise", "disabled"} THEN rest
             ELSE IF behaviour = "none" THEN <<[type |-> "NoneType", value |-> <<>>]>> \o rest
             ELSE IF behaviour = "same" THEN <<[type |-> "list", value |-> managed]>> \o rest
             ELSE IF behaviour = "list" THEN <<[type |-> "list", value |-> HookList]>> \o rest
             ELSE <<[type |-> "dict", value |-> <<HookDict>>]>> \o rest

\* Lines 584-590 with the message dict appended instead of replacing the
\* last entry.
apply_before_llm_DictAppended(managed, modified_history) ==
    IF modified_history = <<>> THEN managed
    ELSE LET last == modified_history[Len(modified_history)]
         IN  IF last.type = "list" THEN last.value
             ELSE IF last.type = "dict" THEN managed \o last.value
             ELSE managed

\* Lines 584-590: managed_history after the hook, from the list of results.
apply_before_llm(managed, modified_history) ==
    IF modified_history = <<>> THEN managed
    ELSE LET last == modified_history[Len(modified_history)]
         IN  IF last.type = "list" THEN last.value
             ELSE IF last.type = "dict"
                  THEN PySliceTo(managed, Len(managed) - 1) \o last.value
             ELSE managed

\* The managed histories the dispatch is applied to: a user message alone
\* or after the system prompt, possibly followed by a tool message.
BlHistories ==
    { <<Msg("user", "What time is it?")>>,
      <<SystemPrompt, Msg("user", "What time is it?")>>,
      <<SystemPrompt, Msg("user", "What time is it?"),
        ToolMsg("12:00", "call_1", "get_current_time")>> }

BlIdle ==
    /\ bl_callbacks = <<>>
    /\ bl_managed = <<>>
    /\ bl_out = <<>>
    /\ bl_called = FALSE

BlInit ==
    /\ bl_callbacks \in UNION { [1..n -> BeforeLlmBehaviours] : n \in 0..MaxCallbacks }
    /\ bl_managed \in BlHistories
    /\ bl_out = <<>>
    /\ bl_called = FALSE

\* Lines 583-590 at the top of one iteration.
BeforeLlm ==
    /\ ~bl_called
    /\ bl_called' = TRUE
    /\ bl_out' = apply_before_llm(bl_managed, before_llm_results(bl_callbacks, bl_managed))
    /\ UNCHANGED <<bl_callbacks, bl_managed>>

(***************************************************************************)
(* Claims about the BEFORE_LLM dispatch (checked under SpecBeforeLlm)      *)
(***************************************************************************)
\* The callbacks that were invoked and returned a value.
ReturnedCallbacks ==
    SelectSeq(bl_callbacks, LAMBDA b : b \notin {"raise", "disabled"})

\* What the hook result is: the value returned last, or nothing.
HookResult ==
    IF ReturnedCallbacks = <<>> THEN "nothing"
    ELSE ReturnedCallbacks[Len(ReturnedCallbacks)]

\* C21: for any number of registered BEFORE_LLM callbacks, when the hook
\* result (the value returned last) is a message list the managed history
\* is replaced wholesale by that list, when it is a single message dict
\* only the last entry of the managed history is replaced by it, and
\* otherwise the managed history is left unchanged.  For a single callback
\* that returns no list of its own this is what hooked_history gives on
\* every iteration of the loop.
C21_HookResultPolicy ==
    bl_called =>
        /\ HookResult = "list" => bl_out = HookList
        /\ HookResult = "same" => bl_out = bl_managed
        /\ HookResult = "dict" =>
              /\ Len(bl_out) = Len(bl_managed)
              /\ bl_out[Len(bl_out)] = HookDict
              /\ \A i \in 1..(Len(bl_managed) - 1) : bl_out[i] = bl_managed[i]
        /\ HookResult \in {"none", "nothing"} => bl_out = bl_managed
        /\ (Len(bl_callbacks) <= 1 /\ HookResult # "list") =>
              bl_out = hooked_history(bl_managed,
                                      IF HookResult = "dict" THEN "dict"
                                      ELSE IF HookResult = "same" THEN "copy"
                                      ELSE "none")

\* C21 witness: three callbacks, the first returned a new list, the second
\* raised, the third returned a message dict; the last entry of a history
\* of three messages was replaced.
C21_Witness ==
    /\ bl_called
    /\ bl_callbacks = <<"list", "raise", "dict">>
    /\ Len(bl_managed) = 3
    /\ bl_out = <<bl_managed[1], bl_managed[2], HookDict>>

(***************************************************************************)
(* The speech threads of a streaming response (assistant_core.py lines     *)
(* 744-749 and 758-763) running TTSEngine.speak (tts_engine.py 158-207)    *)
(***************************************************************************)
MaxSentences == 3       \* most sentences dispatched for one response

\* tts_threads[n] is where the thread of the n-th dispatched sentence is:
\*   "started"     Thread.start() was called, speak has not begun
\*   "synthesize"  speak runs self.synthesize (line 180)
\*   "playing"     sd.play was called (line 186), speak is in sd.wait
\*   "done"        speak has returned
\* tts_device is the thread whose sd.play call was the last one and has not
\* returned from sd.wait (0: none); tts_heard lists the sd.play calls.
TtsIdle ==
    /\ tts_threads = <<>>
    /\ tts_device = 0
    /\ tts_heard = <<>>

\* Lines 744-749, 758-763: a daemon thread is started for the sentence;
\* the streaming loop goes on without joining it.
DispatchSpeech ==
    /\ Len(tts_threads) < MaxSentences
    /\ tts_threads' = Append(tts_threads, "started")
    /\ UNCHANGED <<tts_device, tts_heard>>

\* tts_engine.py lines 177-180: the thread enters speak and synthesizes.
\* Nothing in speak or synthesize takes a lock.
SpeakEnter(n) ==
    /\ tts_threads[n] = "started"
    /\ tts_threads' = [tts_threads EXCEPT ![n] = "synthesize"]
    /\ UNCHANGED <<tts_device, tts_heard>>

\* Lines 183-186: the audio is read and handed to the device.
SpeakPlay(n) ==
    /\ tts_threads[n] = "synthesize"
    /\ tts_threads' = [tts_threads EXCEPT ![n] = "playing"]
    /\ tts_device' = n
    /\ tts_heard' = Append(tts_heard, n)

\* Lines 188-203: sd.wait returns and speak returns.
SpeakReturn(n) ==
    /\ tts_threads[n] = "playing"
    /\ tts_threads' = [tts_threads EXCEPT ![n] = "done"]
    /\ tts_device' = IF tts_device = n THEN 0 ELSE tts_device
    /\ UNCHANGED tts_heard

\* The speak invocation of the n-th sentence has begun.
SpeakBegun(n) == tts_threads[n] # "started"

\* C27: the speech threads of one streaming response never run
\* concurrently: the speak invocation of a sentence has finished before
\* the speak invocation of any later sentence begins, and the sentences
\* are played in the order in which they were dispatched.
C27_SpeechTasksNeverOverlap ==
    /\ \A n \in 1..Len(tts_threads), m \in 1..Len(tts_threads) :
          (n < m /\ SpeakBegun(m)) => tts_threads[n] = "done"
    /\ \A k \in 1..(Len(tts_heard) - 1) : tts_heard[k] < tts_heard[k + 1]

(***************************************************************************)
(* WakeWordDetector: start_continuous_listening, stop_continuous_listening *)
(* and the background threads (wake_word_detector.py lines 208-361)        *)
(***************************************************************************)
MaxListenThreads == 3   \* most background threads ever started

\* ww_threads[n] is where the n-th background thread is:
\*   "outer"    at the test of listen_loop's while (line 311)
\*   "inner"    at the test of listen_for_wake_word's while (line 236)
\*   "blocked"  in stt_engine.listen_and_transcribe (line 247)
\*   "ended"    past the finally clause of listen_loop (lines 334-336)
\* listening_thread is the last thread started.  ww_main is "joining"
\* while stop_continuous_listening waits in join(timeout=2.0).
WwIdle ==
    /\ ww_is_listening = FALSE
    /\ ww_stop_event = FALSE
    /\ ww_threads = <<>>
    /\ ww_main = "idle"

ListeningThreadAlive ==
    ww_threads # <<>> /\ ww_threads[Len(ww_threads)] # "ended"

\* Lines 290-341: nothing happens when is_listening is set; otherwise the
\* flags are set and a new thread is started.
start_continuous_listening ==
    /\ ww_main = "idle"
    /\ Len(ww_threads) < MaxListenThreads
    /\ IF ww_is_listening
       THEN UNCHANGED ww_vars
       ELSE /\ ww_is_listening' = TRUE
            /\ ww_stop_event' = FALSE
            /\ ww_threads' = Append(ww_threads, "outer")
            /\ UNCHANGED ww_main

\* Lines 343-361, called from another thread than the listening thread:
\* nothing happens when is_listening is not set; otherwise the flags are
\* set and the listening thread, when alive, is joined for 2 seconds.
stop_continuous_listening ==
    /\ ww_main = "idle"
    /\ IF ~ww_is_listening
       THEN UNCHANGED ww_vars
       ELSE /\ ww_is_listening' = FALSE
            /\ ww_stop_event' = TRUE
            /\ ww_main' = IF ListeningThreadAlive THEN "joining" ELSE "idle"
            /\ UNCHANGED ww_threads

\* Line 356: join returns because the thread has ended, or after 2 seconds
\* with the thread still alive.
JoinReturns(timed_out) ==
    /\ ww_main = "joining"
    /\ timed_out = ListeningThreadAlive
    /\ ww_main' = "idle"
    /\ UNCHANGED <<ww_is_listening, ww_stop_event, ww_threads>>

\* Lines 311 and 334-336: the test of listen_loop's while; when it fails the
\* finally clause clears is_listening and the thread ends.
ListenLoopTest(n) ==
    /\ ww_threads[n] = "outer"
    /\ IF ww_is_listening /\ ~ww_stop_event
       THEN /\ ww_threads' = [ww_threads EXCEPT ![n] = "inner"]
            /\ UNCHANGED ww_is_listening
       ELSE /\ ww_threads' = [ww_threads EXCEPT ![n] = "ended"]
            /\ ww_is_listening' = FALSE
    /\ UNCHANGED <<ww_stop_event, ww_main>>

\* Lines 236-247: the test of listen_for_wake_word's while and its duration
\* check; the thread leaves the function or blocks in the STT engine.
ListenForWakeWordTest(n, duration_over) ==
    /\ ww_threads[n] = "inner"
    /\ ww_threads' = [ww_threads EXCEPT ![n] =
            IF ww_stop_event \/ duration_over THEN "outer" ELSE "blocked"]
    /\ UNCHANGED <<ww_is_listening, ww_stop_event, ww_main>>

\* Lines 247-281: listen_and_transcribe returns; a detected wake word ends
\* listen_for_wake_word (break), anything else goes round its loop.
ListenReturns(n, detected) ==
    /\ ww_threads[n] = "blocked"
    /\ ww_threads' = [ww_threads EXCEPT ![n] = IF detected THEN "outer" ELSE "inner"]
    /\ UNCHANGED <<ww_is_listening, ww_stop_event, ww_main>>

\* The background threads whose listening loop has not ended.
RunningLoops == {n \in 1..Len(ww_threads) : ww_threads[n] # "ended"}

\* C29: whatever the interleaving of start_continuous_listening,
\* stop_continuous_listening and the background threads, a stop whose join
\* times out followed by a new start included, at most one background
\* listening loop is running.
C29_AtMostOneListeningLoop == Cardinality(RunningLoops) <= 1

(***************************************************************************)
(* Specifications                                                          *)
(***************************************************************************)
CtxStep == CtxNext /\ UNCHANGED <<ex_vars, sp_vars, cmd_vars, hk_vars, rt_vars, vl_vars,
                 bl_vars, tts_vars, ww_vars>>
ExecStep == ExecNext /\ UNCHANGED <<ctx_vars, sp_vars, cmd_vars, hk_vars, rt_vars, vl_vars,
                 bl_vars, tts_vars, ww_vars>>
SplitAddStep ==
    /\ \E n \in 1..MaxTextLen : AddText(n)
    /\ UNCHANGED <<ctx_vars, ex_vars, cmd_vars, hk_vars, rt_vars, vl_vars,
                 bl_vars, tts_vars, ww_vars>>
SplitFlushStep ==
    Flush /\ UNCHANGED <<ctx_vars, ex_vars, cmd_vars, hk_vars, rt_vars, vl_vars,
                 bl_vars, tts_vars, ww_vars>>

other_vars == <<ctx_vars, ex_vars, sp_vars, hk_vars, rt_vars, vl_vars,
               bl_vars, tts_vars, ww_vars>>
StartTurnStep ==
    /\ \E input \in UserInputs, flags \in CallFlags :
          StartTurn(input, flags[1], flags[2])
    /\ UNCHANGED other_vars
ChatStep ==
    /\ \/ Chat(TRUE, <<>>)
       \/ \E calls \in ResponseCalls(iteration, function_calls) \cup {<<>>} :
             Chat(FALSE, calls)
    /\ UNCHANGED other_vars
LoopExhaustedStep == LoopExhausted /\ UNCHANGED other_vars
FcBeforeStep == FcBefore /\ UNCHANGED other_vars
FcExecuteStep ==
    (\E outcome \in {"return", "TypeError", "ValueError"} : FcExecute(outcome))
        /\ UNCHANGED other_vars
FcAfterStep == FcAfter /\ UNCHANGED other_vars
FcAppendStep == FcAppend /\ UNCHANGED other_vars
FinishStep == Finish /\ UNCHANGED other_vars
StreamOpenStep == (\E raises \in BOOLEAN : StreamOpen(raises)) /\ UNCHANGED other_vars
StreamDeltaStep ==
    (\E delta \in {NextDelta(deltas_seen)} : StreamDelta(delta)) /\ UNCHANGED other_vars
StreamRaiseStep == StreamRaise /\ UNCHANGED other_vars
StreamDoneStep == StreamDone /\ UNCHANGED other_vars
FallbackStep == (\E raises \in BOOLEAN : Fallback(raises)) /\ UNCHANGED other_vars

\* Every step of a process_command call that is under way.
CallStep ==
    \/ ChatStep \/ LoopExhaustedStep
    \/ FcBeforeStep \/ FcExecuteStep \/ FcAfterStep \/ FcAppendStep
    \/ StreamOpenStep \/ StreamDeltaStep \/ StreamRaiseStep \/ StreamDoneStep
    \/ FallbackStep
    \/ FinishStep

Next == StartTurnStep \/ CallStep

InitCtx == CtxInit /\ ExIdle /\ SpIdle /\ CmdIdle /\ HkIdle /\ RtIdle /\ VlIdle
    /\ BlIdle /\ TtsIdle /\ WwIdle
SpecCtx == InitCtx /\ [][CtxStep]_vars

InitExec == CtxIdle /\ ExIdle /\ SpIdle /\ CmdIdle /\ HkIdle /\ RtIdle /\ VlIdle
    /\ BlIdle /\ TtsIdle /\ WwIdle
SpecExec == InitExec /\ [][ExecStep]_vars

Init == CtxIdle /\ ExIdle /\ SpIdle /\ CmdInit /\ HkIdle /\ RtIdle /\ VlIdle
    /\ BlIdle /\ TtsIdle /\ WwIdle
Spec == Init /\ [][Next]_vars

\* The steps that a call under way cannot put off for ever: the interpreter
\* executes the next statement of process_command, the LLM and the
\* callables answer, and a stream that was opened ends (it is exhausted or
\* it raises).  How many deltas a stream yields before is left open.
Progress ==
    \/ ChatStep \/ LoopExhaustedStep
    \/ FcBeforeStep \/ FcExecuteStep \/ FcAfterStep \/ FcAppendStep
    \/ StreamOpenStep \/ StreamRaiseStep \/ StreamDoneStep
    \/ FallbackStep
    \/ FinishStep

SpecLive == Spec /\ WF_vars(Progress)

AbbrevAddStep ==
    /\ \E n \in 1..Len(sp_text) : AddText(n)
    /\ UNCHANGED <<ctx_vars, ex_vars, cmd_vars, hk_vars, rt_vars, vl_vars,
                 bl_vars, tts_vars, ww_vars>>
InitAbbrev == CtxIdle /\ ExIdle /\ SpAbbrevInit /\ CmdIdle /\ HkIdle /\ RtIdle /\ VlIdle
    /\ BlIdle /\ TtsIdle /\ WwIdle
SpecAbbrev == InitAbbrev /\ [][AbbrevAddStep \/ SplitFlushStep]_vars

InitSplit == CtxIdle /\ ExIdle /\ SpInit /\ CmdIdle /\ HkIdle /\ RtIdle /\ VlIdle
    /\ BlIdle /\ TtsIdle /\ WwIdle
SpecSplit == InitSplit /\ [][SplitAddStep \/ SplitFlushStep]_vars

not_hk_vars == <<ctx_vars, ex_vars, sp_vars, cmd_vars, rt_vars, vl_vars,
                bl_vars, tts_vars, ww_vars>>
ExecuteHookStep == ExecuteHook /\ UNCHANGED not_hk_vars
HookCallbackStep == HookCallback /\ UNCHANGED not_hk_vars
HookReturnStep == HookReturn /\ UNCHANGED not_hk_vars
SetPluginEnabledStep ==
    /\ \E p \in PluginNames, enabled \in BOOLEAN : SetPluginEnabled(p, enabled)
    /\ UNCHANGED not_hk_vars
HkStep == ExecuteHookStep \/ HookCallbackStep \/ HookReturnStep \/ SetPluginEnabledStep
InitHook == CtxIdle /\ ExIdle /\ SpIdle /\ CmdIdle /\ HkInit /\ RtIdle /\ VlIdle
    /\ BlIdle /\ TtsIdle /\ WwIdle
SpecHook == InitHook /\ [][HkStep]_vars

not_rt_vars == <<ctx_vars, ex_vars, sp_vars, cmd_vars, hk_vars, vl_vars,
                bl_vars, tts_vars, ww_vars>>
RetryCallStep == RetryCall /\ UNCHANGED not_rt_vars
RetryAttemptStep ==
    /\ \E outcome \in {"return"} \cup RaisedTypes : RetryAttempt(outcome)
    /\ UNCHANGED not_rt_vars
RtStep == RetryCallStep \/ RetryAttemptStep
InitRetry == CtxIdle /\ ExIdle /\ SpIdle /\ CmdIdle /\ HkIdle /\ RtInit /\ VlIdle
    /\ BlIdle /\ TtsIdle /\ WwIdle
SpecRetry == InitRetry /\ [][RtStep]_vars

not_vl_vars == <<ctx_vars, ex_vars, sp_vars, cmd_vars, hk_vars, rt_vars,
                bl_vars, tts_vars, ww_vars>>
VoiceStartStep == VoiceStart /\ UNCHANGED not_vl_vars
VoicePassStep ==
    /\ \E outcome \in PassOutcomes : VoicePass(outcome)
    /\ UNCHANGED not_vl_vars
VlStep == VoiceStartStep \/ VoicePassStep
InitVoice == CtxIdle /\ ExIdle /\ SpIdle /\ CmdIdle /\ HkIdle /\ RtIdle /\ VlIdle
    /\ BlIdle /\ TtsIdle /\ WwIdle
SpecVoice == InitVoice /\ [][VlStep]_vars

not_bl_vars == <<ctx_vars, ex_vars, sp_vars, cmd_vars, hk_vars, rt_vars, vl_vars,
                tts_vars, ww_vars>>
BeforeLlmStep == BeforeLlm /\ UNCHANGED not_bl_vars
InitBeforeLlm == CtxIdle /\ ExIdle /\ SpIdle /\ CmdIdle /\ HkIdle /\ RtIdle /\ VlIdle
    /\ BlInit /\ TtsIdle /\ WwIdle
SpecBeforeLlm == InitBeforeLlm /\ [][BeforeLlmStep]_vars

\* Conversations of plain turns: no plugin hooks, no function calls, the
\* user's text with or without a keyword that is_important looks for.
PlainTurnStep ==
    /\ \E input \in PlainInputs, flags \in PlainFlags :
          StartTurnWithin(MaxPlainTurns, input, flags[1], flags[2])
    /\ UNCHANGED other_vars
PlainNext == PlainTurnStep \/ ChatStep \/ FinishStep
InitPlain == CtxIdle /\ ExIdle /\ SpIdle /\ CmdPlainInit /\ HkIdle /\ RtIdle /\ VlIdle
    /\ BlIdle /\ TtsIdle /\ WwIdle
SpecPlain == InitPlain /\ [][PlainNext]_vars

not_tts_vars == <<ctx_vars, ex_vars, sp_vars, cmd_vars, hk_vars, rt_vars, vl_vars,
                 bl_vars, ww_vars>>
DispatchSpeechStep == DispatchSpeech /\ UNCHANGED not_tts_vars
SpeakEnterStep ==
    (\E n \in 1..Len(tts_threads) : SpeakEnter(n)) /\ UNCHANGED not_tts_vars
SpeakPlayStep ==
    (\E n \in 1..Len(tts_threads) : SpeakPlay(n)) /\ UNCHANGED not_tts_vars
SpeakReturnStep ==
    (\E n \in 1..Len(tts_threads) : SpeakReturn(n)) /\ UNCHANGED not_tts_vars
TtsStep == DispatchSpeechStep \/ SpeakEnterStep \/ SpeakPlayStep \/ SpeakReturnStep
InitSpeech == CtxIdle /\ ExIdle /\ SpIdle /\ CmdIdle /\ HkIdle /\ RtIdle /\ VlIdle
    /\ BlIdle /\ TtsIdle /\ WwIdle
SpecSpeech == InitSpeech /\ [][TtsStep]_vars

not_ww_vars == <<ctx_vars, ex_vars, sp_vars, cmd_vars, hk_vars, rt_vars, vl_vars,
                bl_vars, tts_vars>>
StartListeningStep == start_continuous_listening /\ UNCHANGED not_ww_vars
StopListeningStep == stop_continuous_listening /\ UNCHANGED not_ww_vars
JoinReturnsStep ==
    (\E timed_out \in BOOLEAN : JoinReturns(timed_out)) /\ UNCHANGED not_ww_vars
ListenLoopTestStep ==
    (\E n \in 1..Len(ww_threads) : ListenLoopTest(n)) /\ UNCHANGED not_ww_vars
ListenForWakeWordTestStep ==
    /\ \E n \in 1..Len(ww_threads), duration_over \in BOOLEAN :
          ListenForWakeWordTest(n, duration_over)
    /\ UNCHANGED not_ww_vars
ListenReturnsStep ==
    /\ \E n \in 1..Len(ww_threads), detected \in BOOLEAN : ListenReturns(n, detected)
    /\ UNCHANGED not_ww_vars
WwStep ==
    \/ StartListeningStep \/ StopListeningStep \/ JoinReturnsStep
    \/ ListenLoopTestStep \/ ListenForWakeWordTestStep \/ ListenReturnsStep
InitWake == CtxIdle /\ ExIdle /\ SpIdle /\ CmdIdle /\ HkIdle /\ RtIdle /\ VlIdle
    /\ BlIdle /\ TtsIdle /\ WwIdle
SpecWake == InitWake /\ [][WwStep]_vars

====
